---- MODULE Spec2Model ----
(***************************************************************************)
(* Model of the two response pipelines of the assistant backend:           *)
(*   chat_completion (utils/chats.py)  - direct completion streaming       *)
(*   chat_agent      (utils/foundry.py) - agent run-event streaming and    *)
(*                                        citation reconciliation          *)
(*                                                                         *)
(* Text is a sequence of tokens.  A token is one character (a letter, a    *)
(* blank, a newline) or one literal that the code treats as a unit (the    *)
(* thinking delimiters, the Sources header, the pieces of a link line).    *)
(***************************************************************************)
EXTENDS Integers, Sequences, FiniteSets, TLC

----------------------------------------------------------------------------
(* Bounds of the model *)

MaxChunks == 3
MaxCites == 2
MaxUploads == 2
MaxEvents == 2
MaxThreadMsgs == 2
MaxAnnotations == 2
MaxModels == 2
MaxTurns == 7

----------------------------------------------------------------------------
(* Literals of the code *)

None == <<"<None>">>
OPEN == "<think>"
CLOSE == "</think>"
NL == "\n"
SP == " "
SOURCES == "**Sources:**"
THINKING == "[model] thinking..."

Whitespace == {SP, NL}

(* f"\n\n**Sources:**" *)
SourcesHeader == <<NL, NL, SOURCES>>

(* Characters the backends put into streamed text *)
TextTokens == {OPEN, CLOSE, "a", SP}

(* Messages of the exceptions raised by the collaborators *)
Errors == {<<"boom">>}
AttributeError == <<"'NoneType' object has no attribute 'content'">>

----------------------------------------------------------------------------
(* str methods used by the pipelines *)

RECURSIVE Concat(_)
Concat(ss) == IF ss = <<>> THEN <<>> ELSE Head(ss) \o Concat(Tail(ss))

IsPrefix(p, s) == Len(p) <= Len(s) /\ SubSeq(s, 1, Len(p)) = p

(* s.startswith(t) for a one-token literal t *)
StartsWith(s, t) == Len(s) > 0 /\ s[1] = t

RECURSIVE LStrip(_)
LStrip(s) == IF s # <<>> /\ Head(s) \in Whitespace THEN LStrip(Tail(s)) ELSE s

RECURSIVE RStrip(_)
RStrip(s) ==
    IF s # <<>> /\ s[Len(s)] \in Whitespace THEN RStrip(SubSeq(s, 1, Len(s) - 1)) ELSE s

(* s.strip() *)
Strip(s) == RStrip(LStrip(s))

(* s.split(t)[-1] for a one-token literal t: what follows the last t *)
SplitLast(s, t) ==
    LET occ == {i \in 1..Len(s) : s[i] = t}
    IN  IF occ = {} THEN s
        ELSE LET last == CHOOSE i \in occ : \A j \in occ : j <= i
             IN  SubSeq(s, last + 1, Len(s))

(* the sequences over S of length at most n *)
RECURSIVE SeqsUpTo(_, _)
SeqsUpTo(S, n) ==
    IF n = 0 THEN {<<>>}
    ELSE LET shorter == SeqsUpTo(S, n - 1)
         IN  shorter \cup {Append(s, x) : s \in shorter, x \in S}

----------------------------------------------------------------------------
(* Data of the agent pipeline *)

(* user_input *)
USER_INPUT == <<"q">>

(* pending uploads as append_message stores them: name, mime, path *)
UploadKinds ==
    { [name |-> <<"a", SP, "b">>, mime |-> "application/pdf", path |-> "/tmp/doc"],
      [name |-> <<"i">>, mime |-> "image/png", path |-> "/tmp/img"],
      [name |-> <<"n">>, mime |-> "application/pdf", path |-> ""] }

(* upload["mime"].startswith("image/") *)
IsImage(upload) == upload.mime \in {"image/png", "image/jpeg"}

(* the text append_message extracts from a non-image upload *)
FileText(name) ==
    <<"<file_name:">> \o name \o <<">", "md", "</file_name:">> \o name \o <<">">>

RECURSIVE ExtractedTexts(_)
ExtractedTexts(uploads) ==
    IF uploads = <<>> THEN <<>>
    ELSE (IF IsImage(Head(uploads)) THEN <<>> ELSE <<FileText(Head(uploads).name)>>)
         \o ExtractedTexts(Tail(uploads))

(* identifier the agent service gives to the n-th file stored by this call *)
UploadedId(n) == <<"file-", ToString(n)>>

(* file identifiers that annotations refer to *)
FileIds == {UploadedId(1), <<"file-", "old">>}

EmptyMapping == [f \in FileIds |-> None]

(* file_id_mapping as earlier turns can leave it *)
Mappings == {EmptyMapping, [EmptyMapping EXCEPT ![<<"file-", "old">>] = <<"c">>]}

(* MessageInputTextBlock / MessageInputImageFileBlock *)
TextBlock(text) == [type |-> "text", value |-> text]
ImageFileBlock(file_id) == [type |-> "image_file", value |-> file_id]

(* an attachment that does not carry the identifier of the stored file *)
AttachmentNoId(file_id) == [file_id |-> None, tools |-> "code_interpreter"]

(* MessageAttachment(file_id=file.id, tools=CodeInterpreterTool().definitions) *)
Attachment(file_id) == [file_id |-> file_id, tools |-> "code_interpreter"]

(* events of the run stream: (event_type, event_data, _) *)
DeltaTexts == {<<>>, <<"d">>}
LastErrors == {<<"rate limited">>}

Payloads ==
    {[type |-> "MessageDeltaChunk", text |-> t, status |-> "", last_error |-> None]
        : t \in DeltaTexts}
    \cup {[type |-> "ThreadRun", text |-> None, status |-> st, last_error |-> None]
        : st \in {"completed", "in_progress"}}
    \cup {[type |-> "ThreadRun", text |-> None, status |-> "failed", last_error |-> e]
        : e \in LastErrors}
    \cup {[type |-> "str", text |-> <<"stream error">>, status |-> "", last_error |-> None]}

EventTypes == {"thread.event", "error"}

Events == [event_type : EventTypes, event_data : Payloads]

(* no event is being handled *)
NoEvent == [event_type |-> "", event_data |->
               [type |-> "", text |-> None, status |-> "", last_error |-> None]]

(* str(event_data) *)
PayloadStr(data) ==
    IF data.type = "str" THEN data.text ELSE <<"<", data.type, ">">>

(* thread messages as the image scan sees them: the image blocks of one message,
   each with its file identifier or None when the block has no "file_id" *)
ThreadMessages == {<<>>, <<<<"img-1">>>>, <<<<"img-1">>, <<"img-2">>>>, <<None>>}

(* annotations of the final message *)
NoAnnotationFields == [kind |-> "other", text |-> None, title |-> None, url |-> None,
                       file_id |-> None]

UrlCitation(marker, title, url) ==
    [NoAnnotationFields EXCEPT !.kind = "url_citation", !.text = marker,
                               !.title = title, !.url = url]

FilePath(marker, file_id) ==
    [NoAnnotationFields EXCEPT !.kind = "file_path", !.text = marker, !.file_id = file_id]

Annotations ==
    { UrlCitation(<<"x", "y">>, <<"t">>, <<"https://", "w">>),
      UrlCitation(None, <<"u">>, <<"https://", "w">>),
      UrlCitation(None, <<"a", SP, "b">>, <<"doc_", "0">>),
      UrlCitation(None, None, <<"doc_", "1">>),
      FilePath(<<"x">>, UploadedId(1)),
      FilePath(None, <<"file-", "old">>),
      [NoAnnotationFields EXCEPT !.text = <<"y">>] }

FinalTexts == {<<"a">>, <<SP, "a", "x", "y", SP>>, <<"x", "x", "y", "y">>}

(* response_message = None *)
NoMessage == [text |-> None, annotations |-> <<>>]

(* the value of get_last_message_text_by_role: text.value and text.annotations *)
FinalMessages == [text : FinalTexts, annotations : SeqsUpTo(Annotations, MaxAnnotations)]

(* two of the final messages: one without annotations, one with a cited web page *)
BriefMessages ==
    [text : {<<SP, "a", "x", "y", SP>>},
     annotations : {<<>>, <<UrlCitation(<<"x", "y">>, <<"t">>, <<"https://", "w">>)>>}]

----------------------------------------------------------------------------
(* State *)

VARIABLES
    pipeline,       \* which entry point is running
    pc,             \* position inside the entry point
    result,         \* value returned to the caller, or None
    raised,         \* messages of the errors that left the function
    msg_ok,         \* cl.Message(...).send() returned a message object
    msg_content,    \* msg.content, the live buffer
    displayed,      \* text the UI shows: the buffer of the last send()/update()
    n_pushes,       \* number of send()/update() calls that reached the UI
    is_thinking,    \* is_thinking
    n_events,       \* chunks / events taken from the stream so far
    text_events,    \* texts of the text-bearing events taken from the stream while it
                    \* is being consumed, in arrival order (emptied when the loop is left)
    accumulated,    \* msg.content as it stood when the streamed text was last complete
    backend_calls,  \* calls of completion() / runs.stream()
    last_chunk,     \* last_chunk: whether a chunk is retained, and its citations
    chunk,          \* the chunk the loop body is handling (NoneChunk outside the loop)
    n_citing,       \* chunks with a citations attribute taken from the stream so far
    event,          \* the event the loop body is handling (NoEvent outside the loop)
    file_uploads,   \* session "file_uploads": pending uploads of the turn
    file_contents,  \* session "file_contents": extracted file texts of the turn
    file_id_mapping,\* session "file_id_mapping": file identifier -> original name
    upload_idx,     \* uploads handled by the upload loop
    n_uploaded,     \* files the agent service has stored for this call
    attachments,    \* attachments
    content_blocks, \* content_blocks
    thread,         \* messages created on the thread by this call
    stream_opened,  \* run-event streams entered
    stream_closed,  \* run-event streams released
    n_msgs,         \* thread messages scanned for images
    message,        \* the thread message the image loop is handling (empty outside it)
    images,         \* images
    elements,       \* msg.elements
    fetches,        \* calls of get_last_message_text_by_role
    response_message, \* response_message
    citation_sources, \* citation_sources
    source_lines,   \* the lines appended after the Sources header, one entry per line
    chat_settings,  \* session "chat_settings": temperature, model_provider, model_name
    chat_profile,   \* session "chat_profile": the selected profile
    llm_models,     \* get_llm_models(): the configuration list
    messages,       \* messages, the argument of chat_completion / get_llm_params
    use_tools,      \* use_tools, the argument of get_llm_params
    chat_parameters,\* chat_parameters
    chat_history,   \* session "chat_history": the stored entries, oldest first
    thread_id,      \* session "thread_id"
    n_turns,        \* user messages the turn handler has taken
    n_appended,     \* entries append_message has added to the history so far
    errors_shown,   \* messages authored "Error" that the running handler has shown
    calls,          \* pipelines the running turn has invoked, in call order
    request,        \* the messages of the last request sent to a backend
    start_details,  \* llm_details of start(): the value of get_llm_details
    user_elements,  \* message.elements of the running turn
    n_threads       \* threads the agent service has created for this session

exitVars == <<pipeline, result, raised>>
msgVars == <<msg_ok, msg_content, displayed, n_pushes>>
streamVars == <<is_thinking, n_events, text_events, accumulated, backend_calls>>
completionVars == <<last_chunk, chunk, n_citing>>
sessionVars == <<file_uploads, file_contents, file_id_mapping>>
assemblyVars == <<upload_idx, n_uploaded, attachments, content_blocks, thread>>
scopeVars == <<stream_opened, stream_closed>>
imageVars == <<n_msgs, message, images, elements>>
finalVars == <<fetches, response_message, citation_sources, source_lines>>
agentVars == <<event, sessionVars, assemblyVars, scopeVars, imageVars, finalVars>>

requestVars == <<chat_settings, chat_profile, llm_models, messages, use_tools>>

turnVars == <<chat_history, thread_id, n_turns, n_appended, errors_shown, calls, request,
              start_details, user_elements, n_threads>>

vars == <<pc, exitVars, msgVars, streamVars, completionVars, agentVars, requestVars,
          chat_parameters, turnVars>>

----------------------------------------------------------------------------
(* an error message that drops the message of the original exception *)
RuntimeErrorNoCause(name, e) == <<"Error generating response in ", name, ": ">>

(* Exit through the outer handler: raise RuntimeError(f"... {str(e)}") *)

RuntimeErrorMsg(name, e) == <<"Error generating response in ", name, ": ">> \o e

Raise(e) ==
    /\ pc' = "raised"
    /\ raised' = Append(raised, RuntimeErrorMsg(pipeline, e))
    /\ UNCHANGED <<pipeline, result>>

----------------------------------------------------------------------------
(* get_llm_params *)

(* a key that a dict does not hold *)
Missing == <<"<missing>">>

(* chat_settings["temperature"]: the value of the slider, a number in tenths *)
Temperatures == {[type |-> "float", tenths |-> 7], [type |-> "int", tenths |-> 10]}

(* chat_parameters holds no temperature *)
NoTemperature == [type |-> "missing", tenths |-> 0]

(* float(temperature) *)
Float(temperature) == [type |-> "float", tenths |-> temperature.tenths]

(* profiles, providers and model names *)
AZURE_GPT4 == <<"azure", "/", "gpt-4">>
AZURE_O3 == <<"azure", "/", "o3-mini">>
PERPLEXITY_SONAR == <<"perplexity", "/", "sonar">>
FOUNDRY_AGENT == <<"foundry", "/", "agent">>

(* descriptors of llm_config.json: a field is Missing, None or a value *)
Descriptors ==
    [model_deployment : {AZURE_GPT4, AZURE_O3},
     api_key : {Missing, <<"k">>},
     api_version : {None, <<"v">>},
     api_endpoint : {Missing, <<"e">>}]

(* the empty dict *)
EmptyDescriptor ==
    [model_deployment |-> Missing, api_key |-> Missing, api_version |-> Missing,
     api_endpoint |-> Missing]

(* chat_settings as get_llm_details leaves them *)
ChatSettings ==
    [temperature : Temperatures,
     model_provider : {"azure", "perplexity"},
     model_name : {"gpt-4", "o3-mini"}]

(* message lists given to the builder *)
MessageLists == {<<>>, <<"m">>}

(* the tools list: one function definition, search_web *)
TOOLS == <<"search_web">>

(* chat_parameters before it is built *)
NoParameters ==
    [model |-> Missing, messages |-> <<>>, stream |-> FALSE, api_key |-> Missing,
     api_version |-> Missing, api_base |-> Missing, temperature |-> NoTemperature,
     tools |-> Missing]

(* next((item for item in get_llm_models() if item["model_deployment"] == chat_profile), {}) *)
RECURSIVE LlmDetails(_, _)
LlmDetails(models, profile) ==
    IF models = <<>> THEN EmptyDescriptor
    ELSE IF Head(models).model_deployment = profile THEN Head(models)
         ELSE LlmDetails(Tail(models), profile)

(* llm_details.get(key) is truthy *)
Truthy(value) == value \notin {Missing, None, <<>>}

(* an exclusion set that holds no model *)
RejectsTemperatureNever(model_name) == FALSE

(* "model_name not in ['o3-mini']" fails: the model takes no temperature *)
RejectsTemperature(model_name) == model_name \in {"o3-mini"}

get_llm_params(msgs, tools_flag, settings, profile, models) ==
    LET llm_details == LlmDetails(models, profile)
        azure == settings.model_provider = "azure"
    IN  [model |-> profile,
         messages |-> msgs,
         stream |-> TRUE,
         api_key |-> llm_details.api_key,
         api_version |-> IF azure /\ Truthy(llm_details.api_version)
                         THEN llm_details.api_version ELSE Missing,
         api_base |-> IF azure /\ Truthy(llm_details.api_endpoint)
                      THEN llm_details.api_endpoint ELSE Missing,
         temperature |-> IF azure
                         THEN (IF RejectsTemperature(settings.model_name)
                               THEN NoTemperature ELSE settings.temperature)
                         ELSE Float(settings.temperature),
         tools |-> IF tools_flag THEN TOOLS ELSE Missing]

----------------------------------------------------------------------------
(* chat_completion *)

URLs == {<<"u1">>, <<"u2">>}

CitationLists == SeqsUpTo(URLs, MaxCites)

(* chunk.choices[0].delta.content: None, empty, or text *)
ChunkContents == {None, <<>>} \cup {<<t>> : t \in TextTokens} \cup {<<"a", SP>>, <<SP, "a">>}

(* a chunk: its delta content, whether it has a citations attribute, and the attribute *)
Chunks ==
    {c \in [content : ChunkContents, has_citations : BOOLEAN, citations : CitationLists] :
        ~c.has_citations => c.citations = <<>>}

(* last_chunk = None *)
NoChunk == [retained |-> FALSE, citations |-> <<>>]

(* no chunk is being handled *)
NoneChunk == [content |-> None, has_citations |-> FALSE, citations |-> <<>>]

(* "if chunk.choices and chunk.choices[0].delta.content" *)
HasContent(c) == c.content # None /\ c.content # <<>>

(* f"\n[{citation}]({citation})" *)
CitationLine(citation) == <<NL, "[">> \o citation \o <<"](">> \o citation \o <<")">>

CitationLines(citations) ==
    Concat([i \in 1..Len(citations) |-> CitationLine(citations[i])])

(* state at entry of either pipeline *)
InitCommon ==
    /\ pc = "send"
    /\ result = None
    /\ raised = <<>>
    /\ msg_ok = FALSE
    /\ msg_content = <<>>
    /\ displayed = <<>>
    /\ n_pushes = 0
    /\ is_thinking = TRUE
    /\ n_events = 0
    /\ text_events = <<>>
    /\ accumulated = None
    /\ backend_calls = 0
    /\ last_chunk = NoChunk
    /\ chunk = NoneChunk
    /\ n_citing = 0
    /\ event = NoEvent

(* locals of chat_agent before its first statement *)
InitLocals ==
    /\ upload_idx = 0
    /\ n_uploaded = 0
    /\ attachments = <<>>
    /\ content_blocks = <<>>
    /\ thread = <<>>
    /\ stream_opened = 0
    /\ stream_closed = 0
    /\ n_msgs = 0
    /\ message = <<>>
    /\ images = <<>>
    /\ elements = <<>>
    /\ fetches = 0
    /\ response_message = NoMessage
    /\ citation_sources = <<>>
    /\ source_lines = <<>>

(* the state of the turn handler while a pipeline is looked at on its own *)
InitTurn ==
    /\ chat_history = <<>>
    /\ thread_id = None
    /\ n_turns = 0
    /\ n_appended = 0
    /\ errors_shown = <<>>
    /\ calls = <<>>
    /\ request = <<>>
    /\ start_details = EmptyDescriptor
    /\ user_elements = <<>>
    /\ n_threads = 0

InitCompletion ==
    /\ pipeline = "chat_completion"
    /\ InitCommon
    /\ InitLocals
    /\ InitTurn
    /\ chat_settings = [temperature |-> [type |-> "float", tenths |-> 7],
                        model_provider |-> "azure", model_name |-> "gpt-4"]
    /\ chat_profile = AZURE_GPT4
    /\ llm_models = <<[model_deployment |-> AZURE_GPT4, api_key |-> <<"k">>,
                        api_version |-> <<"v">>, api_endpoint |-> <<"e">>]>>
    /\ messages = <<"m">>
    /\ use_tools = FALSE
    /\ chat_parameters = NoParameters
    /\ file_uploads = <<>>
    /\ file_contents = <<>>
    /\ file_id_mapping = EmptyMapping

(* msg = await cl.Message(f"[{model_name}] thinking...", author="agent").send() *)
CompletionSend ==
    /\ pipeline = "chat_completion" /\ pc = "send"
    /\ \/ /\ \E ok \in BOOLEAN : msg_ok' = ok
          /\ msg_content' = <<THINKING>>
          /\ displayed' = <<THINKING>>
          /\ n_pushes' = n_pushes + 1
          /\ pc' = "call"
          /\ UNCHANGED exitVars
       \/ /\ \E e \in Errors : Raise(e)
          /\ UNCHANGED msgVars
    /\ UNCHANGED <<streamVars, completionVars, agentVars>>
    /\ UNCHANGED <<requestVars, chat_parameters, turnVars>>

(* chat_parameters = get_llm_params(messages); response = completion(chat_parameters) *)
CompletionCall ==
    /\ pipeline = "chat_completion" /\ pc = "call"
    /\ backend_calls' = backend_calls + 1
    /\ \/ /\ pc' = "stream"
          /\ UNCHANGED exitVars
       \/ \E e \in Errors : Raise(e)
    /\ UNCHANGED <<msgVars, is_thinking, n_events, text_events, accumulated, completionVars,
                   agentVars>>
    /\ chat_parameters' = get_llm_params(messages, FALSE, chat_settings, chat_profile,
                                         llm_models)
    /\ UNCHANGED <<requestVars, turnVars>>

(* a loop body that puts the new text in front of the buffer *)
ChunkPrepend(content, thinking, c) ==
    LET cleared == IF thinking THEN <<>> ELSE content
    IN  IF HasContent(c) THEN c.content \o cleared ELSE cleared

(* msg.content after the loop body has handled the chunk *)
ChunkAppend(content, thinking, c) ==
    LET cleared == IF thinking THEN <<>> ELSE content
    IN  IF HasContent(c) THEN cleared \o c.content ELSE cleared

(* retention of the first chunk with citations instead of the last *)
RetainFirstChunk(retained, c) ==
    IF c.has_citations /\ ~retained.retained
    THEN [retained |-> TRUE, citations |-> c.citations]
    ELSE retained

(* "if 'citations' in chunk: last_chunk = chunk" *)
RetainChunk(retained, c) ==
    IF c.has_citations
    THEN [retained |-> TRUE, citations |-> c.citations]
    ELSE retained

(* one iteration of "for chunk in response" *)
CompletionChunk ==
    /\ pipeline = "chat_completion" /\ pc = "stream"
    /\ n_events < MaxChunks
    /\ \E c \in Chunks :
        /\ n_events' = n_events + 1
        /\ chunk' = c
        /\ IF ~msg_ok
           THEN \* msg is None: msg.content fails on the first use
                /\ Raise(AttributeError)
                /\ text_events' = <<>>
                /\ UNCHANGED <<msgVars, is_thinking, last_chunk, n_citing>>
           ELSE /\ is_thinking' = FALSE
                /\ msg_content' = ChunkAppend(msg_content, is_thinking, c)
                /\ \/ \* await msg.update() succeeds, or is not reached
                      /\ text_events' = IF HasContent(c)
                                        THEN Append(text_events, c.content)
                                        ELSE text_events
                      /\ displayed' = IF HasContent(c) THEN msg_content' ELSE displayed
                      /\ n_pushes' = IF HasContent(c) THEN n_pushes + 1 ELSE n_pushes
                      /\ last_chunk' = RetainChunk(last_chunk, c)
                      /\ n_citing' = IF c.has_citations THEN n_citing + 1 ELSE n_citing
                      /\ pc' = "stream"
                      /\ UNCHANGED exitVars
                   \/ \* await msg.update() raises
                      /\ HasContent(c)
                      /\ \E e \in Errors : Raise(e)
                      /\ text_events' = <<>>
                      /\ UNCHANGED <<displayed, n_pushes, last_chunk, n_citing>>
                /\ UNCHANGED msg_ok
    /\ UNCHANGED <<accumulated, backend_calls, agentVars>>
    /\ UNCHANGED <<requestVars, chat_parameters, turnVars>>

(* the response iterator raises instead of yielding a chunk *)
CompletionStreamError ==
    /\ pipeline = "chat_completion" /\ pc = "stream"
    /\ \E e \in Errors : Raise(e)
    /\ text_events' = <<>>
    /\ UNCHANGED <<msgVars, is_thinking, n_events, accumulated, backend_calls, completionVars,
                   agentVars>>
    /\ UNCHANGED <<requestVars, chat_parameters, turnVars>>

(* the loop ends; "if last_chunk and 'citations' in last_chunk": append the Sources block *)
CompletionSources ==
    /\ pipeline = "chat_completion" /\ pc = "stream"
    /\ text_events' = <<>>
    /\ IF last_chunk.retained /\ ~msg_ok
       THEN /\ Raise(AttributeError)
            /\ UNCHANGED msg_content
       ELSE /\ msg_content' = IF last_chunk.retained
                              THEN msg_content \o SourcesHeader
                                               \o CitationLines(last_chunk.citations)
                              ELSE msg_content
            /\ pc' = "strip"
            /\ UNCHANGED exitVars
    /\ chunk' = NoneChunk
    /\ UNCHANGED <<msg_ok, displayed, n_pushes, is_thinking, n_events, accumulated,
                   backend_calls, last_chunk, n_citing, agentVars>>
    /\ UNCHANGED <<requestVars, chat_parameters, turnVars>>

(* removal of the thinking block that does not trim the rest *)
RemoveThinkingNoStrip(content) == SplitLast(content, CLOSE)

(* msg.content.split("</think>")[-1].strip() *)
RemoveThinking(content) == Strip(SplitLast(content, CLOSE))

(* "if msg and msg.content.startswith('<think>')": remove the thinking block *)
CompletionStrip ==
    /\ pipeline = "chat_completion" /\ pc = "strip"
    /\ accumulated' = msg_content
    /\ msg_content' = IF msg_ok /\ StartsWith(msg_content, OPEN)
                      THEN RemoveThinking(msg_content)
                      ELSE msg_content
    /\ pc' = "update"
    /\ UNCHANGED <<exitVars, msg_ok, displayed, n_pushes, is_thinking, n_events,
                   text_events, backend_calls, completionVars, agentVars>>
    /\ UNCHANGED <<requestVars, chat_parameters, turnVars>>

(* await msg.update(); return msg.content *)
CompletionReturn ==
    /\ pipeline = "chat_completion" /\ pc = "update"
    /\ IF ~msg_ok
       THEN /\ Raise(AttributeError)
            /\ UNCHANGED <<displayed, n_pushes>>
       ELSE \/ /\ displayed' = msg_content
               /\ n_pushes' = n_pushes + 1
               /\ result' = msg_content
               /\ pc' = "done"
               /\ UNCHANGED <<pipeline, raised>>
            \/ /\ \E e \in Errors : Raise(e)
               /\ UNCHANGED <<displayed, n_pushes>>
    /\ UNCHANGED <<msg_ok, msg_content, streamVars, completionVars, agentVars>>
    /\ UNCHANGED <<requestVars, chat_parameters, turnVars>>

NextCompletion ==
    \/ CompletionSend
    \/ CompletionCall
    \/ CompletionChunk
    \/ CompletionStreamError
    \/ CompletionSources
    \/ CompletionStrip
    \/ CompletionReturn

SpecCompletion == InitCompletion /\ [][NextCompletion]_vars

(* chat_completion(messages, use_tools=True) *)
InitCompletionTools ==
    /\ pipeline = "chat_completion"
    /\ InitCommon
    /\ InitLocals
    /\ InitTurn
    /\ chat_settings = [temperature |-> [type |-> "float", tenths |-> 7],
                        model_provider |-> "azure", model_name |-> "gpt-4"]
    /\ chat_profile = AZURE_GPT4
    /\ llm_models = <<[model_deployment |-> AZURE_GPT4, api_key |-> <<"k">>,
                        api_version |-> <<"v">>, api_endpoint |-> <<"e">>]>>
    /\ messages = <<"m">>
    /\ use_tools = TRUE
    /\ chat_parameters = NoParameters
    /\ file_uploads = <<>>
    /\ file_contents = <<>>
    /\ file_id_mapping = EmptyMapping

SpecCompletionTools == InitCompletionTools /\ [][NextCompletion]_vars

----------------------------------------------------------------------------
(* chat_agent: set-up, content assembly and uploads *)

InitAgent ==
    /\ pipeline = "chat_agent"
    /\ InitCommon
    /\ InitLocals
    /\ InitTurn
    /\ chat_settings = [temperature |-> [type |-> "float", tenths |-> 7],
                        model_provider |-> "foundry", model_name |-> "agent"]
    /\ chat_profile = FOUNDRY_AGENT
    /\ llm_models = <<[model_deployment |-> FOUNDRY_AGENT, api_key |-> Missing,
                        api_version |-> Missing, api_endpoint |-> <<"e">>]>>
    /\ messages = <<"m">>
    /\ use_tools = FALSE
    /\ chat_parameters = NoParameters
    /\ file_uploads \in SeqsUpTo(UploadKinds, MaxUploads)
    /\ file_contents = ExtractedTexts(file_uploads)
    /\ file_id_mapping \in Mappings

(* msg = await cl.Message(...).send(); "if not msg: raise Exception(...)" *)
AgentSend ==
    /\ pipeline = "chat_agent" /\ pc = "send"
    /\ \/ /\ msg_ok' = TRUE
          /\ msg_content' = <<THINKING>>
          /\ displayed' = <<THINKING>>
          /\ n_pushes' = n_pushes + 1
          /\ pc' = "client"
          /\ UNCHANGED exitVars
       \/ \* send() gives no message object
          /\ Raise(<<"Failed to create message object">>)
          /\ displayed' = <<THINKING>>
          /\ n_pushes' = n_pushes + 1
          /\ UNCHANGED <<msg_ok, msg_content>>
       \/ /\ \E e \in Errors : Raise(e)
          /\ UNCHANGED msgVars
    /\ UNCHANGED <<streamVars, completionVars, agentVars>>
    /\ UNCHANGED <<requestVars, chat_parameters, turnVars>>

(* content_blocks = [text(user_input)] + [text(content) for content in file_contents] *)
BaselineBlocks(input, contents) ==
    <<TextBlock(input)>> \o [i \in 1..Len(contents) |-> TextBlock(contents[i])]

(* agents_client = AgentsClient(...); the session reads; the file_contents loop *)
AgentClient ==
    /\ pipeline = "chat_agent" /\ pc = "client"
    /\ \/ /\ attachments' = <<>>
          /\ content_blocks' = BaselineBlocks(USER_INPUT, file_contents)
          /\ pc' = "upload"
          /\ UNCHANGED exitVars
       \/ /\ \E e \in Errors : Raise(e)
          /\ UNCHANGED <<attachments, content_blocks>>
    /\ UNCHANGED <<msgVars, streamVars, completionVars, event, sessionVars, upload_idx, n_uploaded,
                   thread, scopeVars, imageVars, finalVars>>
    /\ UNCHANGED <<requestVars, chat_parameters, turnVars>>

(* an image upload that adds its block to the blocks already there *)
BlocksAfterUploadAppend(blocks, upload, file_id) ==
    IF IsImage(upload)
    THEN Append(blocks, ImageFileBlock(file_id))
    ELSE blocks

(* content_blocks after an upload has been stored under file_id *)
BlocksAfterUpload(blocks, upload, file_id) ==
    IF IsImage(upload)
    THEN <<TextBlock(USER_INPUT), ImageFileBlock(file_id)>>
    ELSE blocks

(* an upload loop that goes on with the next upload when upload_and_poll raises *)
AgentUploadSkipFailed ==
    /\ pipeline = "chat_agent" /\ pc = "upload"
    /\ upload_idx < Len(file_uploads)
    /\ LET upload == file_uploads[upload_idx + 1]
           file_id == UploadedId(n_uploaded + 1)
       IN  IF upload.path = ""
           THEN /\ upload_idx' = upload_idx + 1
                /\ UNCHANGED <<pc, exitVars, n_uploaded, attachments, content_blocks>>
           ELSE \/ /\ upload_idx' = upload_idx + 1
                   /\ n_uploaded' = n_uploaded + 1
                   /\ attachments' = Append(attachments, Attachment(file_id))
                   /\ content_blocks' = BlocksAfterUpload(content_blocks, upload, file_id)
                   /\ UNCHANGED <<pc, exitVars>>
                \/ /\ upload_idx' = upload_idx + 1
                   /\ UNCHANGED <<pc, exitVars, n_uploaded, attachments, content_blocks>>
    /\ UNCHANGED <<msgVars, streamVars, completionVars, event, sessionVars, thread, scopeVars,
                   imageVars, finalVars>>
    /\ UNCHANGED <<requestVars, chat_parameters, turnVars>>

(* one iteration of "for upload in file_uploads" *)
AgentUpload ==
    /\ pipeline = "chat_agent" /\ pc = "upload"
    /\ upload_idx < Len(file_uploads)
    /\ LET upload == file_uploads[upload_idx + 1]
           file_id == UploadedId(n_uploaded + 1)
       IN  IF upload.path = ""
           THEN /\ upload_idx' = upload_idx + 1
                /\ UNCHANGED <<pc, exitVars, n_uploaded, attachments, content_blocks>>
           ELSE \/ \* upload_and_poll stores the file
                   /\ upload_idx' = upload_idx + 1
                   /\ n_uploaded' = n_uploaded + 1
                   /\ attachments' = Append(attachments, Attachment(file_id))
                   /\ content_blocks' = BlocksAfterUpload(content_blocks, upload, file_id)
                   /\ UNCHANGED <<pc, exitVars>>
                \/ \* upload_and_poll raises
                   /\ \E e \in Errors : Raise(e)
                   /\ UNCHANGED <<upload_idx, n_uploaded, attachments, content_blocks>>
    /\ UNCHANGED <<msgVars, streamVars, completionVars, event, sessionVars, thread, scopeVars,
                   imageVars, finalVars>>
    /\ UNCHANGED <<requestVars, chat_parameters, turnVars>>

(* a message creation that does not wait for the end of the upload loop *)
AgentCreateEarly ==
    /\ pipeline = "chat_agent" /\ pc = "upload"
    /\ \/ /\ thread' = Append(thread, [content |-> content_blocks,
                                        attachments |-> attachments])
          /\ pc' = "open"
          /\ UNCHANGED exitVars
       \/ /\ \E e \in Errors : Raise(e)
          /\ UNCHANGED thread
    /\ UNCHANGED <<msgVars, streamVars, completionVars, event, sessionVars, upload_idx, n_uploaded,
                   attachments, content_blocks, scopeVars, imageVars, finalVars>>
    /\ UNCHANGED <<requestVars, chat_parameters, turnVars>>

(* agents_client.messages.create(thread_id, role="user", content, attachments) *)
AgentCreate ==
    /\ pipeline = "chat_agent" /\ pc = "upload"
    /\ upload_idx = Len(file_uploads)
    /\ \/ /\ thread' = Append(thread, [content |-> content_blocks,
                                        attachments |-> attachments])
          /\ pc' = "open"
          /\ UNCHANGED exitVars
       \/ /\ \E e \in Errors : Raise(e)
          /\ UNCHANGED thread
    /\ UNCHANGED <<msgVars, streamVars, completionVars, event, sessionVars, upload_idx, n_uploaded,
                   attachments, content_blocks, scopeVars, imageVars, finalVars>>
    /\ UNCHANGED <<requestVars, chat_parameters, turnVars>>

----------------------------------------------------------------------------
(* chat_agent: the run-event stream *)

(* "with agents_client.runs.stream(...) as stream: msg.content = ''" *)
AgentOpen ==
    /\ pipeline = "chat_agent" /\ pc = "open"
    /\ backend_calls' = backend_calls + 1
    /\ \/ /\ stream_opened' = stream_opened + 1
          /\ msg_content' = <<>>
          /\ pc' = "stream"
          /\ UNCHANGED exitVars
       \/ /\ \E e \in Errors : Raise(e)
          /\ UNCHANGED <<stream_opened, msg_content>>
    /\ UNCHANGED <<msg_ok, displayed, n_pushes, is_thinking, n_events, text_events,
                   accumulated, completionVars, event, sessionVars, assemblyVars, stream_closed,
                   imageVars, finalVars>>
    /\ UNCHANGED <<requestVars, chat_parameters, turnVars>>

(* a dispatch that takes a failed run for an ordinary status event *)
DispatchIgnoreFailed(ev) ==
    IF ev.event_data.type = "MessageDeltaChunk" THEN "delta"
    ELSE IF ev.event_data.type = "ThreadRun" THEN "run_status"
         ELSE IF ev.event_type = "error" THEN "error"
              ELSE "ignored"

(* the branch of the if/elif chain that handles the event *)
Dispatch(ev) ==
    IF ev.event_data.type = "MessageDeltaChunk" THEN "delta"
    ELSE IF ev.event_data.type = "ThreadRun"
         THEN (IF ev.event_data.status = "failed" THEN "run_failed" ELSE "run_status")
         ELSE IF ev.event_type = "error" THEN "error"
              ELSE "ignored"

(* leaving the "with" block, normally or through an exception: stream.__exit__ *)
Release ==
    /\ stream_closed' = stream_closed + 1
    /\ text_events' = <<>>
    /\ UNCHANGED stream_opened

(* an exception that leaves the loop without releasing the stream *)
RaiseNoRelease(e) ==
    /\ Raise(e)
    /\ text_events' = <<>>
    /\ UNCHANGED scopeVars

(* an exception leaves the loop and the "with" block *)
RaiseInStream(e) ==
    /\ Raise(e)
    /\ Release

(* one iteration of "for event_type, event_data, _ in stream" *)
AgentEvent ==
    /\ pipeline = "chat_agent" /\ pc = "stream"
    /\ n_events < MaxEvents
    /\ \E ev \in Events :
        LET branch == Dispatch(ev)
            data == ev.event_data
        IN  /\ n_events' = n_events + 1
            /\ event' = ev
            /\ CASE branch = "delta" ->
                      /\ msg_content' = msg_content \o data.text
                      /\ \/ \* await msg.update()
                            /\ displayed' = msg_content'
                            /\ n_pushes' = n_pushes + 1
                            /\ text_events' = Append(text_events, data.text)
                            /\ is_thinking' = FALSE
                            /\ UNCHANGED <<pc, exitVars, scopeVars>>
                         \/ \* msg.update() raises
                            /\ \E e \in Errors : RaiseInStream(e)
                            /\ UNCHANGED <<displayed, n_pushes, is_thinking>>
                 [] branch = "run_failed" ->
                      /\ RaiseInStream(data.last_error)
                      /\ UNCHANGED <<msg_content, displayed, n_pushes, is_thinking>>
                 [] branch = "error" ->
                      /\ RaiseInStream(PayloadStr(data))
                      /\ UNCHANGED <<msg_content, displayed, n_pushes, is_thinking>>
                 [] OTHER ->
                      UNCHANGED <<pc, exitVars, scopeVars, msg_content, displayed, n_pushes,
                                  is_thinking, text_events>>
    /\ UNCHANGED <<msg_ok, accumulated, backend_calls, completionVars, sessionVars,
                   assemblyVars, imageVars, finalVars>>
    /\ UNCHANGED <<requestVars, chat_parameters, turnVars>>

(* the stream iterator raises instead of yielding an event *)
AgentStreamError ==
    /\ pipeline = "chat_agent" /\ pc = "stream"
    /\ \E e \in Errors : RaiseInStream(e)
    /\ UNCHANGED <<msgVars, is_thinking, n_events, accumulated, backend_calls,
                   completionVars, event, sessionVars, assemblyVars, imageVars, finalVars>>
    /\ UNCHANGED <<requestVars, chat_parameters, turnVars>>

(* the stream is exhausted: the "with" block is left normally *)
AgentStreamEnd ==
    /\ pipeline = "chat_agent" /\ pc = "stream"
    /\ Release
    /\ accumulated' = msg_content
    /\ pc' = "list"
    /\ event' = NoEvent
    /\ UNCHANGED <<exitVars, msgVars, is_thinking, n_events, backend_calls, completionVars,
                   sessionVars, assemblyVars, imageVars, finalVars>>
    /\ UNCHANGED <<requestVars, chat_parameters, turnVars>>

----------------------------------------------------------------------------
(* chat_agent: generated images *)

(* the first image block of a thread message instead of the last *)
FirstImage(m) == IF m = <<>> THEN None ELSE m[1]

(* last_image of a thread message, or None *)
LastImage(m) == IF m = <<>> THEN None ELSE m[Len(m)]

(* f"{file_id}_image_file.png" *)
ImageFileName(file_id) == file_id \o <<"_image_file.png">>

(* one iteration of "for message in messages" *)
AgentImage ==
    /\ pipeline = "chat_agent" /\ pc = "list"
    /\ n_msgs < MaxThreadMsgs
    /\ \E m \in ThreadMessages :
        /\ n_msgs' = n_msgs + 1
        /\ message' = m
        /\ IF LastImage(m) = None
           THEN UNCHANGED <<pc, exitVars, images>>
           ELSE \/ \* agents_client.files.save(...); images.append(image)
                   /\ images' = Append(images, ImageFileName(LastImage(m)))
                   /\ UNCHANGED <<pc, exitVars>>
                \/ \* files.save raises
                   /\ \E e \in Errors : Raise(e)
                   /\ UNCHANGED images
    /\ UNCHANGED <<msgVars, streamVars, completionVars, event, sessionVars, assemblyVars, scopeVars,
                   elements, finalVars>>
    /\ UNCHANGED <<requestVars, chat_parameters, turnVars>>

(* agents_client.messages.list(thread_id) or its iteration raises *)
AgentListError ==
    /\ pipeline = "chat_agent" /\ pc = "list"
    /\ \E e \in Errors : Raise(e)
    /\ UNCHANGED <<msgVars, streamVars, completionVars, agentVars>>
    /\ UNCHANGED <<requestVars, chat_parameters, turnVars>>

----------------------------------------------------------------------------
(* chat_agent: the final message *)

(* the final messages explored for a run: every message of FinalMessages after a run
   whose stream and whose thread listing were empty, the brief ones after the other
   runs *)
FetchedMessages(events, listed) ==
    IF events = 0 /\ listed = 0 THEN FinalMessages ELSE BriefMessages

(* a final buffer that keeps the streamed text in front of the fetched text *)
FinalBufferAppend(content, final) == content \o final.text

(* msg.content = response_message.text.value *)
FinalBuffer(content, final) == final.text

(* a fetch that goes on with the streamed text when there is no final message *)
AgentFetchSilent ==
    /\ pipeline = "chat_agent" /\ pc = "list"
    /\ message' = <<>>
    /\ elements' = IF Len(images) > 0 THEN images ELSE elements
    /\ fetches' = fetches + 1
    /\ \/ \E final \in FetchedMessages(n_events, n_msgs) :
            /\ response_message' = final
            /\ msg_content' = FinalBuffer(msg_content, final)
            /\ pc' = "annotate"
            /\ UNCHANGED exitVars
       \/ /\ pc' = "update"
          /\ UNCHANGED <<exitVars, response_message, msg_content>>
       \/ /\ \E e \in Errors : Raise(e)
          /\ UNCHANGED <<response_message, msg_content>>
    /\ UNCHANGED <<msg_ok, displayed, n_pushes, streamVars, completionVars, event, sessionVars,
                   assemblyVars, scopeVars, n_msgs, images, citation_sources, source_lines>>
    /\ UNCHANGED <<requestVars, chat_parameters, turnVars>>

(* the image loop ends; msg.elements; get_last_message_text_by_role; msg.content = text.value *)
AgentFetch ==
    /\ pipeline = "chat_agent" /\ pc = "list"
    /\ message' = <<>>
    /\ elements' = IF Len(images) > 0 THEN images ELSE elements
    /\ fetches' = fetches + 1
    /\ \/ \E final \in FetchedMessages(n_events, n_msgs) :
            /\ response_message' = final
            /\ msg_content' = FinalBuffer(msg_content, final)
            /\ pc' = "annotate"
            /\ UNCHANGED exitVars
       \/ \* "if not response_message"
          /\ Raise(<<"No response from the model.">>)
          /\ UNCHANGED <<response_message, msg_content>>
       \/ /\ \E e \in Errors : Raise(e)
          /\ UNCHANGED <<response_message, msg_content>>
    /\ UNCHANGED <<msg_ok, displayed, n_pushes, streamVars, completionVars, event, sessionVars,
                   assemblyVars, scopeVars, n_msgs, images, citation_sources, source_lines>>
    /\ UNCHANGED <<requestVars, chat_parameters, turnVars>>

(* s.replace(m, ''): the occurrences of m found from left to right are removed *)
RECURSIVE Remove(_, _)
Remove(s, m) ==
    IF Len(s) < Len(m) THEN s
    ELSE IF SubSeq(s, 1, Len(m)) = m
         THEN Remove(SubSeq(s, Len(m) + 1, Len(s)), m)
         ELSE <<Head(s)>> \o Remove(Tail(s), m)

(* urllib.parse.quote of one character *)
QuoteChar(c) == IF c = SP THEN "%20" ELSE c

(* urllib.parse.quote(name) *)
Quote(name) == [i \in 1..Len(name) |-> QuoteChar(name[i])]

(* os.getenv("SHAREPOINT_FIXED_PATH", ...) *)
SP_BASE == <<"https://sp/">>

(* a link built from str(name) whatever the name is *)
SharepointUrlOfStr(name) ==
    SP_BASE \o Quote(IF name = None THEN <<"None">> ELSE name)

(* the try block that builds sharepoint_url: quote(None) raises, the link stays None *)
SharepointUrl(name) == IF name = None THEN None ELSE SP_BASE \o Quote(name)

(* "if annotation.text and isinstance(annotation.text, str)": strip the marker *)
StripMarker(content, annotation) ==
    IF annotation.text # None /\ annotation.text # <<>>
    THEN Remove(content, annotation.text)
    ELSE content

(* a test that takes no URL for a document reference *)
IsDocUrlNever(url) == FALSE

(* "url and url.startswith('doc_')" *)
IsDocUrl(url) == url # None /\ StartsWith(url, "doc_")

(* the first pending upload, with or without a path *)
FirstUpload(uploads) ==
    IF uploads = <<>> THEN None ELSE uploads[1].name

(* the first pending upload with a path *)
FirstWithPath(uploads) ==
    LET idx == {i \in 1..Len(uploads) : uploads[i].path # ""}
    IN  IF idx = {} THEN None
        ELSE uploads[CHOOSE i \in idx : \A j \in idx : i <= j].name

FileSource(name, file_id) ==
    [type |-> "file", name |-> name, id |-> file_id, link |-> SharepointUrl(name)]

UrlSource(title, url) ==
    [type |-> "url", name |-> title, id |-> None, link |-> url]

(* an annotation loop that names a cited file after the pending upload even when the
   cache already holds a name for it *)
ProcessAnnotationOverwrite(st, annotation, uploads) ==
    LET content == StripMarker(st.content, annotation)
    IN  CASE annotation.kind = "url_citation" ->
                [content |-> content,
                 mapping |-> st.mapping,
                 sources |-> Append(st.sources,
                                    IF IsDocUrl(annotation.url)
                                    THEN FileSource(annotation.title, annotation.url)
                                    ELSE UrlSource(annotation.title, annotation.url))]
          [] annotation.kind = "file_path" ->
                LET cached == st.mapping[annotation.file_id]
                    found == IF FirstWithPath(uploads) # None THEN FirstWithPath(uploads)
                             ELSE cached
                    original_name == IF found = None \/ found = <<>>
                                     THEN <<"Document">> ELSE found
                IN  [content |-> content,
                     mapping |-> [st.mapping EXCEPT ![annotation.file_id] = found],
                     sources |-> Append(st.sources,
                                        FileSource(original_name, annotation.file_id))]
          [] OTHER ->
                [content |-> content, mapping |-> st.mapping, sources |-> st.sources]

(* one iteration of "for annotation in response_message.text.annotations";
   st holds msg.content, file_id_mapping and citation_sources *)
ProcessAnnotation(st, annotation, uploads) ==
    LET content == StripMarker(st.content, annotation)
    IN  CASE annotation.kind = "url_citation" ->
                [content |-> content,
                 mapping |-> st.mapping,
                 sources |-> Append(st.sources,
                                    IF IsDocUrl(annotation.url)
                                    THEN FileSource(annotation.title, annotation.url)
                                    ELSE UrlSource(annotation.title, annotation.url))]
          [] annotation.kind = "file_path" ->
                LET cached == st.mapping[annotation.file_id]
                    found == IF cached # None /\ cached # <<>> THEN cached
                             ELSE FirstWithPath(uploads)
                    store == (cached = None \/ cached = <<>>) /\ found # None
                    original_name == IF found = None \/ found = <<>>
                                     THEN <<"Document">> ELSE found
                IN  [content |-> content,
                     mapping |-> IF store
                                 THEN [st.mapping EXCEPT ![annotation.file_id] = found]
                                 ELSE st.mapping,
                     sources |-> Append(st.sources,
                                        FileSource(original_name, annotation.file_id))]
          [] OTHER ->
                [content |-> content, mapping |-> st.mapping, sources |-> st.sources]

RECURSIVE ProcessAnnotations(_, _, _)
ProcessAnnotations(st, annotations, uploads) ==
    IF annotations = <<>> THEN st
    ELSE ProcessAnnotations(ProcessAnnotation(st, Head(annotations), uploads),
                            Tail(annotations), uploads)

(* the annotation loop *)
AgentAnnotate ==
    /\ pipeline = "chat_agent" /\ pc = "annotate"
    /\ LET st == ProcessAnnotations([content |-> msg_content,
                                     mapping |-> file_id_mapping,
                                     sources |-> <<>>],
                                    response_message.annotations, file_uploads)
       IN  /\ msg_content' = st.content
           /\ file_id_mapping' = st.mapping
           /\ citation_sources' = st.sources
    /\ pc' = "sources"
    /\ UNCHANGED <<exitVars, msg_ok, displayed, n_pushes, streamVars, completionVars,
                   event, file_uploads, file_contents, assemblyVars, scopeVars, imageVars,
                   fetches, response_message, source_lines>>
    /\ UNCHANGED <<requestVars, chat_parameters, turnVars>>

(* a source_key that also holds the file identifier *)
SourceKeyWithId(source) == <<source.type, source.name, source.link, source.id>>

(* source_key *)
SourceKey(source) == <<source.type, source.name, source.link>>

(* str(x) inside an f-string *)
Str(x) == IF x = None THEN <<"None">> ELSE x

(* the line appended for one source; {page} stands for the page emoji of the file lines *)
SourceLine(source) ==
    IF source.type = "url"
    THEN <<NL, "- [">> \o Str(source.name) \o <<"](">> \o Str(source.link) \o <<")">>
    ELSE IF source.link # None /\ source.link # <<>>
         THEN <<NL, "- {page} [">> \o Str(source.name) \o <<"](">>
                  \o source.link \o <<")">>
         ELSE <<NL, "- {page} **">> \o Str(source.name) \o <<"** (File ID: '">>
                  \o Str(source.id) \o <<"')">>

(* the loop "for source in citation_sources": the lines appended, given the keys seen *)
RECURSIVE RenderSources(_, _)
RenderSources(sources, seen_sources) ==
    IF sources = <<>> THEN <<>>
    ELSE LET source == Head(sources)
             source_key == SourceKey(source)
         IN  IF source_key \notin seen_sources
             THEN <<SourceLine(source)>>
                  \o RenderSources(Tail(sources), seen_sources \cup {source_key})
             ELSE RenderSources(Tail(sources), seen_sources)

(* "if citation_sources": strip the text, append the header and the deduplicated lines *)
AgentSources ==
    /\ pipeline = "chat_agent" /\ pc = "sources"
    /\ IF citation_sources # <<>>
       THEN LET lines == RenderSources(citation_sources, {})
            IN  /\ source_lines' = lines
                /\ msg_content' = Strip(msg_content) \o SourcesHeader \o Concat(lines)
       ELSE UNCHANGED <<source_lines, msg_content>>
    /\ pc' = "update"
    /\ UNCHANGED <<exitVars, msg_ok, displayed, n_pushes, streamVars, completionVars,
                   event, sessionVars, assemblyVars, scopeVars, imageVars, fetches,
                   response_message, citation_sources>>
    /\ UNCHANGED <<requestVars, chat_parameters, turnVars>>

(* await msg.update(); return msg.content *)
AgentReturn ==
    /\ pipeline = "chat_agent" /\ pc = "update"
    /\ \/ /\ displayed' = msg_content
          /\ n_pushes' = n_pushes + 1
          /\ result' = msg_content
          /\ pc' = "done"
          /\ UNCHANGED <<pipeline, raised>>
       \/ /\ \E e \in Errors : Raise(e)
          /\ UNCHANGED <<displayed, n_pushes>>
    /\ UNCHANGED <<msg_ok, msg_content, streamVars, completionVars, agentVars>>
    /\ UNCHANGED <<requestVars, chat_parameters, turnVars>>

NextAgent ==
    \/ AgentSend
    \/ AgentClient
    \/ AgentUpload
    \/ AgentCreate
    \/ AgentOpen
    \/ AgentEvent
    \/ AgentStreamError
    \/ AgentStreamEnd
    \/ AgentImage
    \/ AgentListError
    \/ AgentFetch
    \/ AgentAnnotate
    \/ AgentSources
    \/ AgentReturn

SpecAgent == InitAgent /\ [][NextAgent]_vars

----------------------------------------------------------------------------
(* get_llm_params called on its own *)

InitParams ==
    /\ pipeline = "get_llm_params"
    /\ pc = "params"
    /\ result = None
    /\ raised = <<>>
    /\ msg_ok = FALSE
    /\ msg_content = <<>>
    /\ displayed = <<>>
    /\ n_pushes = 0
    /\ is_thinking = TRUE
    /\ n_events = 0
    /\ text_events = <<>>
    /\ accumulated = None
    /\ backend_calls = 0
    /\ last_chunk = NoChunk
    /\ chunk = NoneChunk
    /\ n_citing = 0
    /\ event = NoEvent
    /\ InitLocals
    /\ InitTurn
    /\ file_uploads = <<>>
    /\ file_contents = <<>>
    /\ file_id_mapping = EmptyMapping
    /\ chat_settings \in ChatSettings
    /\ chat_profile \in {AZURE_GPT4, PERPLEXITY_SONAR}
    /\ llm_models \in SeqsUpTo(Descriptors, MaxModels)
    /\ messages \in MessageLists
    /\ use_tools \in BOOLEAN
    /\ chat_parameters = NoParameters

(* chat_parameters = get_llm_params(messages, use_tools) *)
BuildParams ==
    /\ pipeline = "get_llm_params" /\ pc = "params"
    /\ chat_parameters' = get_llm_params(messages, use_tools, chat_settings, chat_profile,
                                         llm_models)
    /\ pc' = "built"
    /\ UNCHANGED <<exitVars, msgVars, streamVars, completionVars, agentVars, requestVars,
                   turnVars>>

NextParams == BuildParams

SpecParams == InitParams /\ [][NextParams]_vars

----------------------------------------------------------------------------
(* Either pipeline, as the turn handler calls it *)

Init == InitCompletion \/ InitAgent

Next == NextCompletion \/ NextAgent

Spec == Init /\ [][Next]_vars

----------------------------------------------------------------------------
(* get_llm_details *)

(* the instructions text of init_settings *)
INSTRUCTIONS == <<"You are BSP AI Assistant">>

(* the session holds no chat_settings yet *)
NoSettings ==
    [temperature |-> NoTemperature, instructions |-> Missing, model_provider |-> "",
     model_name |-> ""]

(* chat_settings as init_settings returns them: the initial values of the two inputs *)
InitialSettings ==
    [temperature |-> [type |-> "float", tenths |-> 7], instructions |-> INSTRUCTIONS,
     model_provider |-> "", model_name |-> ""]

(* profiles of the lookup: two providers with a model of the same name, an agent, and a
   profile without a slash *)
PERPLEXITY_GPT4 == <<"perplexity", "/", "gpt-4">>
NO_SLASH == <<"local">>
DetailProfiles == {AZURE_GPT4, PERPLEXITY_GPT4, FOUNDRY_AGENT, NO_SLASH}

(* descriptors of llm_config.json for the lookup *)
DetailDescriptors ==
    [model_deployment : {AZURE_GPT4, PERPLEXITY_GPT4, FOUNDRY_AGENT},
     api_key : {Missing},
     api_version : {Missing},
     api_endpoint : {Missing, <<"e">>}]

(* chat_profile.split("/"): the parts between the slashes *)
SplitSlash(profile) == SelectSeq(profile, LAMBDA t : t # "/")

(* "provider, model_name = ..." with other than two parts *)
ValueError(n) ==
    IF n < 2 THEN <<"not enough values to unpack (expected 2, got ", ToString(n), ")">>
    ELSE <<"too many values to unpack (expected 2)">>

(* s.endswith(suffix) *)
HasSuffix(s, suffix) ==
    /\ Len(suffix) <= Len(s)
    /\ SubSeq(s, Len(s) - Len(suffix) + 1, Len(s)) = suffix

(* next((item for item in get_llm_models()
         if item["model_deployment"].endswith(f"/{model_name}")), {}) *)
RECURSIVE DetailsByName(_, _)
DetailsByName(models, model_name) ==
    IF models = <<>> THEN EmptyDescriptor
    ELSE IF HasSuffix(Head(models).model_deployment, <<"/", model_name>>)
         THEN Head(models)
         ELSE DetailsByName(Tail(models), model_name)

(* get_llm_details: the error that leaves it (None when it returns), the chat settings it
   stores and the descriptor it returns *)
get_llm_details(settings, profile, models) ==
    LET parts == SplitSlash(profile)
    IN  IF Len(parts) # 2
        THEN [error |-> ValueError(Len(parts)), settings |-> settings,
              details |-> EmptyDescriptor]
        ELSE [error |-> None,
              settings |-> [settings EXCEPT !.model_name = parts[2],
                                            !.model_provider = parts[1]],
              details |-> DetailsByName(models, parts[2])]

(* get_llm_details called on its own *)
InitDetails ==
    /\ pipeline = "get_llm_details"
    /\ pc = "details"
    /\ result = None
    /\ raised = <<>>
    /\ msg_ok = FALSE
    /\ msg_content = <<>>
    /\ displayed = <<>>
    /\ n_pushes = 0
    /\ is_thinking = TRUE
    /\ n_events = 0
    /\ text_events = <<>>
    /\ accumulated = None
    /\ backend_calls = 0
    /\ last_chunk = NoChunk
    /\ chunk = NoneChunk
    /\ n_citing = 0
    /\ event = NoEvent
    /\ InitLocals
    /\ InitTurn
    /\ file_uploads = <<>>
    /\ file_contents = <<>>
    /\ file_id_mapping = EmptyMapping
    /\ chat_settings = InitialSettings
    /\ chat_profile \in DetailProfiles
    /\ llm_models \in SeqsUpTo(DetailDescriptors, MaxModels)
    /\ messages = <<>>
    /\ use_tools = FALSE
    /\ chat_parameters = NoParameters

(* llm_details = get_llm_details() *)
GetDetails ==
    /\ pipeline = "get_llm_details" /\ pc = "details"
    /\ LET r == get_llm_details(chat_settings, chat_profile, llm_models)
       IN  IF r.error # None
           THEN /\ raised' = Append(raised, r.error)
                /\ pc' = "raised"
                /\ UNCHANGED <<chat_settings, start_details>>
           ELSE /\ chat_settings' = r.settings
                /\ start_details' = r.details
                /\ pc' = "detailed"
                /\ UNCHANGED raised
    /\ UNCHANGED <<pipeline, result, msgVars, streamVars, completionVars, agentVars,
                   chat_profile, llm_models, messages, use_tools, chat_parameters,
                   chat_history, thread_id, n_turns, n_appended, errors_shown, calls,
                   request, user_elements, n_threads>>

NextDetails == GetDetails

SpecDetails == InitDetails /\ [][NextDetails]_vars

----------------------------------------------------------------------------
(* The session: start(), main() and append_message *)

(* the configuration list of the session: a direct model and an agent *)
SessionModels ==
    <<[model_deployment |-> AZURE_GPT4, api_key |-> <<"k">>, api_version |-> <<"v">>,
       api_endpoint |-> <<"e">>],
      [model_deployment |-> FOUNDRY_AGENT, api_key |-> Missing, api_version |-> Missing,
       api_endpoint |-> <<"e">>]>>

(* thread.id of the n-th thread the service creates *)
THREAD(n) == <<"thread-", ToString(n)>>

(* message.elements of a turn: no attachment, a document, an element without a path
   followed by an image *)
WithName(name) == CHOOSE u \in UploadKinds : u.name = name
TurnElements == {<<>>, <<WithName(<<"a", SP, "b">>)>>, <<WithName(<<"n">>), WithName(<<"i">>)>>}

(* final messages of an agent run: without annotations, citing a stored file, citing an
   earlier file and a web page, citing a document by its doc_ reference *)
TurnMessages ==
    { [text |-> <<"a">>, annotations |-> <<>>],
      [text |-> <<"a">>, annotations |-> <<FilePath(<<"x">>, UploadedId(1))>>],
      [text |-> <<"a">>,
       annotations |-> <<FilePath(None, <<"file-", "old">>),
                         UrlCitation(None, <<"u">>, <<"https://", "w">>)>>],
      [text |-> <<"a">>,
       annotations |-> <<UrlCitation(None, <<"a", SP, "b">>, <<"doc_", "0">>)>>] }

(* full_response of the direct pipeline *)
RESPONSE == <<"r">>

(* the system message: {"role": "system", "content": [{"type": "text", "text": instructions}]} *)
SystemPrompt(instructions) == [role |-> "system", id |-> 0, text |-> instructions]

(* an entry of the history: its role, and its content identified by the ordinal of the
   append_message call that stored it *)
Entry(role, id) == [role |-> role, id |-> id]

(* the number of entries the history keeps *)
HistoryLimit == 10

(* a pruning that keeps the oldest entries *)
PrunedOldest(role, history) ==
    IF role = "assistant" /\ Len(history) > HistoryLimit
    THEN SubSeq(history, 1, HistoryLimit)
    ELSE history

(* a pruning that does not look at the role *)
PrunedAnyRole(role, history) ==
    IF Len(history) > HistoryLimit
    THEN SubSeq(history, Len(history) - HistoryLimit + 1, Len(history))
    ELSE history

(* "if role == 'assistant' and len(chat_history) > 10: chat_history = chat_history[-10:]" *)
Pruned(role, history) ==
    IF role = "assistant" /\ Len(history) > HistoryLimit
    THEN SubSeq(history, Len(history) - HistoryLimit + 1, Len(history))
    ELSE history

(* pending uploads that an append without attachments leaves as they are *)
PendingUploadsKept(role, attached, stored) ==
    IF role = "user" /\ attached # <<>> THEN attached ELSE stored

(* file_uploads as the call builds it: filled from the elements for role "user" only *)
PendingUploads(role, attached, stored) ==
    IF role = "user" THEN attached ELSE <<>>

(* append_message(role, content, elements): what it stores in the session and returns *)
append_message(role, attached, settings, history, appended, stored) ==
    LET uploads == PendingUploads(role, attached, stored)
        kept == Pruned(role, Append(history, Entry(role, appended + 1)))
    IN  [file_uploads |-> uploads,
         file_contents |-> ExtractedTexts(uploads),
         chat_history |-> kept,
         messages |-> <<SystemPrompt(settings.instructions)>> \o kept]

(* f"An error occurred: {str(e)}" *)
ErrorText(e) == <<"An error occurred: ">> \o e

(* llm_details["api_endpoint"] on a descriptor without the key *)
KeyError == <<"'api_endpoint'">>

InitSession ==
    /\ pipeline = "session"
    /\ pc = "start"
    /\ result = None
    /\ raised = <<>>
    /\ msg_ok = FALSE
    /\ msg_content = <<>>
    /\ displayed = <<>>
    /\ n_pushes = 0
    /\ is_thinking = TRUE
    /\ n_events = 0
    /\ text_events = <<>>
    /\ accumulated = None
    /\ backend_calls = 0
    /\ last_chunk = NoChunk
    /\ chunk = NoneChunk
    /\ n_citing = 0
    /\ event = NoEvent
    /\ InitLocals
    /\ InitTurn
    /\ file_uploads = <<>>
    /\ file_contents = <<>>
    /\ file_id_mapping = EmptyMapping
    /\ chat_settings = NoSettings
    /\ chat_profile \in {AZURE_GPT4, FOUNDRY_AGENT}
    /\ llm_models = SessionModels
    /\ messages = <<>>
    /\ use_tools = FALSE
    /\ chat_parameters = NoParameters

(* variables of the pipelines' inner steps, which the session leaves alone *)
innerVars == <<raised, msgVars, streamVars, completionVars, event, assemblyVars, scopeVars,
               imageVars, fetches, citation_sources, source_lines, use_tools>>

(* a start that does not look for a thread_id the session already holds *)
StartAlwaysCreates ==
    /\ pipeline = "session" /\ pc \in {"start", "idle"}
    /\ LET r == get_llm_details(InitialSettings, chat_profile, llm_models)
       IN  IF r.error # None
           THEN /\ chat_settings' = InitialSettings
                /\ errors_shown' = <<ErrorText(r.error)>>
                /\ UNCHANGED <<start_details, thread_id, n_threads>>
           ELSE /\ chat_settings' = r.settings
                /\ start_details' = r.details
                /\ IF r.settings.model_provider = "foundry"
                   THEN IF r.details.api_endpoint = Missing
                        THEN /\ errors_shown' = <<ErrorText(KeyError)>>
                             /\ UNCHANGED <<thread_id, n_threads>>
                        ELSE \/ /\ thread_id' = THREAD(n_threads + 1)
                                /\ n_threads' = n_threads + 1
                                /\ errors_shown' = <<>>
                             \/ /\ \E e \in Errors : errors_shown' = <<ErrorText(e)>>
                                /\ UNCHANGED <<thread_id, n_threads>>
                   ELSE /\ errors_shown' = <<>>
                        /\ UNCHANGED <<thread_id, n_threads>>
    /\ pc' = "idle"
    /\ UNCHANGED <<pipeline, result, innerVars, sessionVars, response_message, chat_profile,
                   llm_models, messages, chat_parameters, chat_history, n_turns, n_appended,
                   calls, request, user_elements>>

(* start(): the whole handler, with its except branch *)
Start ==
    /\ pipeline = "session" /\ pc \in {"start", "idle"}
    /\ LET r == get_llm_details(InitialSettings, chat_profile, llm_models)
       IN  IF r.error # None
           THEN /\ chat_settings' = InitialSettings
                /\ errors_shown' = <<ErrorText(r.error)>>
                /\ UNCHANGED <<start_details, thread_id, n_threads>>
           ELSE /\ chat_settings' = r.settings
                /\ start_details' = r.details
                /\ IF r.settings.model_provider = "foundry" /\ thread_id \in {None, <<>>}
                   THEN IF r.details.api_endpoint = Missing
                        THEN /\ errors_shown' = <<ErrorText(KeyError)>>
                             /\ UNCHANGED <<thread_id, n_threads>>
                        ELSE \/ \* threads.create() returns a thread
                                /\ thread_id' = THREAD(n_threads + 1)
                                /\ n_threads' = n_threads + 1
                                /\ errors_shown' = <<>>
                             \/ \* AgentsClient(...) or threads.create() raises
                                /\ \E e \in Errors : errors_shown' = <<ErrorText(e)>>
                                /\ UNCHANGED <<thread_id, n_threads>>
                   ELSE /\ errors_shown' = <<>>
                        /\ UNCHANGED <<thread_id, n_threads>>
    /\ pc' = "idle"
    /\ UNCHANGED <<pipeline, result, innerVars, sessionVars, response_message, chat_profile,
                   llm_models, messages, chat_parameters, chat_history, n_turns, n_appended,
                   calls, request, user_elements>>

(* the except branch of main: one message authored "Error", then the handler returns *)
TurnFails(e) ==
    /\ errors_shown' = Append(errors_shown, ErrorText(e))
    /\ result' = None
    /\ messages' = <<>>
    /\ pc' = "idle"

(* main, first part: messages = append_message("user", user_input, message.elements) *)
MainAppendUser ==
    /\ pipeline = "session" /\ pc = "idle"
    /\ n_turns < MaxTurns
    /\ n_turns' = n_turns + 1
    /\ calls' = <<>>
    /\ request' = <<>>
    /\ \E attached \in TurnElements :
         /\ user_elements' = attached
         /\ \/ LET a == append_message("user", attached, chat_settings, chat_history,
                                       n_appended, file_uploads)
               IN  /\ file_uploads' = a.file_uploads
                   /\ file_contents' = a.file_contents
                   /\ chat_history' = a.chat_history
                   /\ n_appended' = n_appended + 1
                   /\ messages' = a.messages
                   /\ errors_shown' = <<>>
                   /\ result' = None
                   /\ pc' = "call"
            \/ \* reading or converting an attached file raises
               /\ attached # <<>>
               /\ \E e \in Errors :
                    /\ errors_shown' = <<ErrorText(e)>>
                    /\ result' = None
                    /\ messages' = <<>>
                    /\ pc' = "idle"
               /\ UNCHANGED <<file_uploads, file_contents, chat_history, n_appended>>
    /\ UNCHANGED <<pipeline, innerVars, file_id_mapping, response_message, chat_settings,
                   chat_profile, llm_models, chat_parameters, thread_id, start_details,
                   n_threads>>

(* a routing that sends every turn to the direct pipeline *)
RouteDirect(provider) == "chat_completion"

(* 'if cl.user_session.get("chat_settings").get("model_provider") == "foundry"' *)
Route(provider) == IF provider = "foundry" THEN "chat_agent" ELSE "chat_completion"

(* full_response = await chat_completion(messages), by its outcome: the parameters it
   builds, the request it sends, and the text it returns or the error it raises *)
CallCompletion ==
    /\ chat_parameters' = get_llm_params(messages, FALSE, chat_settings, chat_profile,
                                         llm_models)
    /\ request' = chat_parameters'.messages
    /\ \/ /\ result' = RESPONSE
          /\ pc' = "append"
          /\ UNCHANGED <<errors_shown, messages>>
       \/ \E e \in Errors : TurnFails(RuntimeErrorMsg("chat_completion", e))
    /\ UNCHANGED <<file_id_mapping, response_message>>

(* msg.content when the annotations have been processed and the sources appended *)
AgentText(st) ==
    IF st.sources = <<>> THEN st.content
    ELSE Strip(st.content) \o SourcesHeader \o Concat(RenderSources(st.sources, {}))

(* full_response = await chat_agent(user_input), by its outcome: the message it creates on
   the thread, the identifier cache it leaves, and the text it returns or the error it
   raises *)
CallAgent ==
    /\ UNCHANGED chat_parameters
    /\ IF thread_id \in {None, <<>>}
          \/ LlmDetails(llm_models, chat_profile).api_endpoint = Missing
       THEN \* no client, or no thread to create the message on
            /\ \E e \in Errors : TurnFails(RuntimeErrorMsg("chat_agent", e))
            /\ UNCHANGED <<request, file_id_mapping, response_message>>
       ELSE /\ request' = <<Entry("user", n_appended)>>
            /\ \/ \* the run fails, or no final message is there
                  /\ \E e \in Errors : TurnFails(RuntimeErrorMsg("chat_agent", e))
                  /\ UNCHANGED <<file_id_mapping, response_message>>
               \/ \E final \in TurnMessages :
                    LET st == ProcessAnnotations([content |-> final.text,
                                                  mapping |-> file_id_mapping,
                                                  sources |-> <<>>],
                                                 final.annotations, file_uploads)
                    IN  /\ response_message' = final
                        /\ file_id_mapping' = st.mapping
                        /\ \/ /\ result' = AgentText(st)
                              /\ pc' = "append"
                              /\ UNCHANGED <<errors_shown, messages>>
                           \/ \* the last msg.update() raises
                              \E e \in Errors :
                                TurnFails(RuntimeErrorMsg("chat_agent", e))

(* main, second part: the pipeline call and, when it raises, the except branch *)
MainCall ==
    /\ pipeline = "session" /\ pc = "call"
    /\ calls' = Append(calls, Route(chat_settings.model_provider))
    /\ IF Route(chat_settings.model_provider) = "chat_agent"
       THEN CallAgent
       ELSE CallCompletion
    /\ UNCHANGED <<pipeline, innerVars, file_uploads, file_contents, chat_settings,
                   chat_profile, llm_models, chat_history, thread_id, n_turns, n_appended,
                   start_details, user_elements, n_threads>>

(* main, last part: append_message("assistant", full_response) *)
MainAppendAssistant ==
    /\ pipeline = "session" /\ pc = "append"
    /\ LET a == append_message("assistant", <<>>, chat_settings, chat_history, n_appended,
                               file_uploads)
       IN  /\ file_uploads' = a.file_uploads
           /\ file_contents' = a.file_contents
           /\ chat_history' = a.chat_history
           /\ n_appended' = n_appended + 1
    /\ result' = None
    /\ messages' = <<>>
    /\ pc' = "idle"
    /\ UNCHANGED <<pipeline, innerVars, file_id_mapping, response_message, chat_settings,
                   chat_profile, llm_models, chat_parameters, thread_id, n_turns,
                   errors_shown, calls, request, start_details, user_elements, n_threads>>

NextSession ==
    \/ Start
    \/ MainAppendUser
    \/ MainCall
    \/ MainAppendAssistant

SpecSession == InitSession /\ [][NextSession]_vars

----------------------------------------------------------------------------
(* Properties *)

(* the function has left its last statement *)
Finalized == pc \in {"update", "done"}

(* s ends with t *)
EndsWith(s, t) == Len(t) <= Len(s) /\ SubSeq(s, Len(s) - Len(t) + 1, Len(s)) = t

(* number of positions of s that hold the token t *)
Count(s, t) == Cardinality({i \in 1..Len(s) : s[i] = t})

(* deduplication key of a collected citation: type, title or name, url or link *)
CitationKey(source) == <<source.type, source.name, source.link>>

(* positions of the collected citations whose key was not seen at an earlier position *)
FirstSeen(sources) ==
    {i \in 1..Len(sources) :
        \A j \in 1..(i - 1) : CitationKey(sources[j]) # CitationKey(sources[i])}

(* the k-th smallest element of a set of positions *)
Nth(positions, k) ==
    CHOOSE i \in positions : Cardinality({j \in positions : j < i}) = k - 1

(* C1: the Sources block of chat_agent has exactly one line per distinct key
   (type, title or name, url or link) of the collected citations, in the order in
   which the keys were first seen, and the returned text ends with that block *)
C1_SourcesDeduplicated ==
    (pipeline = "chat_agent" /\ Finalized /\ citation_sources # <<>>) =>
        LET firsts == FirstSeen(citation_sources)
        IN  /\ Len(source_lines) = Cardinality(firsts)
            /\ \A k \in 1..Len(source_lines) :
                  source_lines[k] = SourceLine(citation_sources[Nth(firsts, k)])
            /\ EndsWith(msg_content, SourcesHeader \o Concat(source_lines))
            /\ Count(msg_content, SOURCES) = 1

(* two citations with the same key and different file identifiers gave one line *)
C1_Witness ==
    /\ pipeline = "chat_agent" /\ pc = "done"
    /\ Len(source_lines) = 1
    /\ Len(citation_sources) = 2
    /\ citation_sources[1].id # citation_sources[2].id

(* the event in hand is a run status with status "failed" *)
FailedSeen == event.event_data.type = "ThreadRun" /\ event.event_data.status = "failed"

(* C2: a run-status event with status "failed" makes chat_agent raise an error whose
   message carries last_error; nothing happens afterwards: no event is consumed, the
   final message is not fetched, no text is returned *)
C2_FailedRunRaises ==
    /\ [](FailedSeen =>
            /\ pc = "raised"
            /\ raised = <<RuntimeErrorMsg("chat_agent", event.event_data.last_error)>>
            /\ EndsWith(raised[1], event.event_data.last_error)
            /\ result = None
            /\ fetches = 0)
    /\ [][FailedSeen => UNCHANGED vars]_vars

(* the run failed after text had been streamed *)
C2_Witness == FailedSeen /\ pc = "raised" /\ displayed = <<"d">> /\ n_events = 2

(* C3: every event tagged as error makes chat_agent raise an error that carries the
   payload, whatever the type of the payload *)
C3_ErrorTagAlwaysRaises ==
    event.event_type = "error" =>
        /\ pc = "raised"
        /\ raised = <<RuntimeErrorMsg("chat_agent", PayloadStr(event.event_data))>>

(* C4: once the run stream has been entered it is released exactly once on every way
   out of the event loop, and it is not released while the loop runs *)
C4_StreamReleasedOnce ==
    /\ stream_opened \in {0, 1}
    /\ stream_closed = IF stream_opened = 1 /\ pc # "stream" THEN 1 ELSE 0

(* the push of a delta raised inside the loop and the stream was released *)
C4_Witness ==
    /\ pc = "raised"
    /\ event.event_data.type = "MessageDeltaChunk"
    /\ raised = <<RuntimeErrorMsg("chat_agent", <<"boom">>)>>
    /\ stream_opened = 1 /\ stream_closed = 1

(* messages of the exceptions that the steps of the pipelines raise *)
OriginalMessages ==
    Errors \cup LastErrors \cup {PayloadStr(p) : p \in Payloads}
    \cup {AttributeError, <<"Failed to create message object">>,
          <<"No response from the model.">>}

(* C5: an exception at any step of either pipeline leaves the function as exactly one
   RuntimeError "Error generating response in <pipeline>: <original message>";
   no text is returned then, and the backend is called at most once *)
C5_SingleRuntimeError ==
    /\ Len(raised) <= 1
    /\ backend_calls <= 1
    /\ (pc = "raised") <=> (Len(raised) = 1)
    /\ pc = "raised" =>
          /\ result = None
          /\ \E e \in OriginalMessages :
                raised[1] = <<"Error generating response in ", pipeline, ": ">> \o e
    /\ result # None => (pc = "done" /\ raised = <<>>)

(* the backend call itself failed in the direct pipeline *)
C5_Witness ==
    /\ pipeline = "chat_completion" /\ pc = "raised" /\ backend_calls = 1 /\ n_events = 0
    /\ raised = <<<<"Error generating response in ", "chat_completion", ": ", "boom">>>>

(* C6: when the stream ended without failure and the thread has no final message of
   the agent, chat_agent raises instead of returning a text *)
C6_MissingFinalMessageFails ==
    /\ (pipeline = "chat_agent" /\ fetches = 1 /\ response_message = NoMessage) =>
            (pc = "raised" /\ result = None)
    /\ (pipeline = "chat_agent" /\ result # None) => response_message # NoMessage

(* text had been streamed, the stream ended normally, and there was no final message *)
C6_Witness ==
    /\ fetches = 1 /\ response_message = NoMessage
    /\ accumulated = <<"d">> /\ stream_closed = 1
    /\ raised = <<RuntimeErrorMsg("chat_agent", <<"No response from the model.">>)>>

(* the text chat_agent builds from a final message, the pending uploads and the cache *)
TextOf(final, uploads, mapping) ==
    LET st == ProcessAnnotations([content |-> final.text, mapping |-> mapping,
                                  sources |-> <<>>], final.annotations, uploads)
    IN  IF st.sources = <<>> THEN st.content
        ELSE Strip(st.content) \o SourcesHeader \o Concat(RenderSources(st.sources, {}))

(* C7: the returned text of chat_agent is a function of the fetched final message and
   the session state; the text accumulated from the deltas is not part of it *)
C7_DeltasReplaced ==
    (pipeline = "chat_agent" /\ pc = "done") =>
        result = TextOf(response_message, file_uploads, file_id_mapping)

(* deltas were shown and the returned text does not start with them *)
C7_Witness ==
    /\ pipeline = "chat_agent" /\ pc = "done"
    /\ accumulated = <<"d", "d">>
    /\ ~IsPrefix(accumulated, result)

(* the accumulated text has the form <think> X </think> Y with Y starting after i *)
ThinkForm(text, i) == StartsWith(text, OPEN) /\ i \in 2..Len(text) /\ text[i] = CLOSE

Rest(text, i) == SubSeq(text, i + 1, Len(text))

(* C8 as stated: for X and Y arbitrary the final buffer is Y trimmed; without the
   opening marker the buffer is unchanged *)
C8_AnyThinkingBlockRemoved ==
    (pipeline = "chat_completion" /\ Finalized /\ msg_ok) =>
        /\ \A i \in 1..Len(accumulated) :
              ThinkForm(accumulated, i) => msg_content = Strip(Rest(accumulated, i))
        /\ ~StartsWith(accumulated, OPEN) => msg_content = accumulated

(* C8: for accumulated text <think> X </think> Y where Y holds no </think>, the final
   buffer is Y trimmed of surrounding whitespace; accumulated text that does not begin
   with <think> is left unchanged *)
C8_ThinkingBlockRemoved ==
    (pipeline = "chat_completion" /\ Finalized /\ msg_ok) =>
        /\ \A i \in 1..Len(accumulated) :
              (ThinkForm(accumulated, i) /\ Count(Rest(accumulated, i), CLOSE) = 0)
                  => msg_content = Strip(Rest(accumulated, i))
        /\ ~StartsWith(accumulated, OPEN) => msg_content = accumulated

(* a thinking block was removed and the rest lost surrounding whitespace *)
C8_Witness ==
    /\ pipeline = "chat_completion" /\ pc = "done"
    /\ \E i \in 1..Len(accumulated) :
          /\ ThinkForm(accumulated, i)
          /\ result # <<>>
          /\ Len(result) < Len(Rest(accumulated, i))

(* the link line of one citation *)
LinkLine(url) == <<NL, "[">> \o url \o <<"](">> \o url \o <<")">>

RECURSIVE LinkLines(_)
LinkLines(urls) == IF urls = <<>> THEN <<>> ELSE LinkLine(Head(urls)) \o LinkLines(Tail(urls))

(* C9: the chunk retained is the last one with a citations attribute, and the Sources
   block of the returned text is the header followed by one link line per entry of
   that chunk's list, in order, duplicates included *)
C9_LastCitationsWin ==
    /\ [](pipeline = "chat_completion" =>
            /\ (pc = "stream" /\ chunk.has_citations) =>
                  last_chunk = [retained |-> TRUE, citations |-> chunk.citations]
            /\ last_chunk.retained <=> (n_citing > 0)
            /\ (Finalized /\ last_chunk.retained) =>
                  /\ EndsWith(msg_content, <<SOURCES>> \o LinkLines(last_chunk.citations))
                  /\ Count(msg_content, SOURCES) = 1
                  /\ Count(msg_content, "[") = Len(last_chunk.citations)
            /\ (Finalized /\ ~last_chunk.retained) => Count(msg_content, SOURCES) = 0)
    /\ [][(pipeline = "chat_completion" /\ pc' = "stream" /\ n_events' = n_events + 1
             /\ ~chunk'.has_citations) => last_chunk' = last_chunk]_vars

(* several chunks had citations and the last list holds a URL twice *)
C9_Witness ==
    /\ pipeline = "chat_completion" /\ pc = "done"
    /\ n_citing >= 2
    /\ last_chunk.citations = <<<<"u1">>, <<"u1">>>>

(* a step of the stream loop that takes one item and stays in the loop *)
StreamStep == pc = "stream" /\ pc' = "stream" /\ n_events' = n_events + 1

(* the item taken by the step bears no text *)
NoText ==
    IF pipeline = "chat_completion" THEN ~HasContent(chunk')
    ELSE event'.event_data.type # "MessageDeltaChunk"

(* C10 as stated: the shown text is the concatenation of the texts in arrival order,
   every shown buffer is a prefix of the next, and an item without text changes
   nothing and causes no push *)
C10_ArrivalOrderNothingChanged ==
    /\ []((pc = "stream" /\ text_events # <<>>) => displayed = Concat(text_events))
    /\ [][(StreamStep /\ text_events # <<>>) => IsPrefix(displayed, displayed')]_vars
    /\ [][(StreamStep /\ NoText) => UNCHANGED <<msg_content, displayed, n_pushes>>]_vars

(* C10: the shown text is the concatenation of the texts in arrival order and every
   shown buffer is a prefix of the next; an item without text causes no push and
   leaves the shown text unchanged, and leaves the buffer unchanged except that the
   first chunk of the direct stream empties the buffer of the placeholder *)
C10_ArrivalOrder ==
    /\ []((pc = "stream" /\ text_events # <<>>) =>
            /\ displayed = Concat(text_events)
            /\ msg_content = displayed
            /\ n_pushes = 1 + Len(text_events))
    /\ [][(StreamStep /\ text_events # <<>>) => IsPrefix(displayed, displayed')]_vars
    /\ [][(StreamStep /\ NoText) =>
            /\ UNCHANGED <<displayed, n_pushes>>
            /\ msg_content' = IF pipeline = "chat_completion" /\ is_thinking
                              THEN <<>> ELSE msg_content]_vars

(* two text-bearing chunks and a chunk without text were taken, and the texts are
   shown in arrival order *)
C10_Witness ==
    /\ pipeline = "chat_completion" /\ pc = "stream"
    /\ n_events = 3
    /\ text_events = <<<<SP>>, <<"a", SP>>>>

(* C11 as stated: when the completion stream yields no chunk, chat_completion returns
   the empty text, and the placeholder is never part of the returned text *)
C11_EmptyStreamReturnsEmpty ==
    (pipeline = "chat_completion" /\ pc = "done") =>
        /\ n_events = 0 => result = <<>>
        /\ Count(result, THINKING) = 0

(* positions of the pending uploads that have a path and an image MIME type *)
ImagePositions(uploads) ==
    {i \in 1..Len(uploads) : uploads[i].path # "" /\ IsImage(uploads[i])}

(* number of uploads with a path among the first i pending uploads *)
StoredBefore(uploads, i) == Cardinality({j \in 1..i : uploads[j].path # ""})

(* the largest position of a non-empty set of positions *)
Last(positions) == CHOOSE i \in positions : \A j \in positions : j <= i

(* C12: when a pending upload with a path is an image, the content sent with the
   message is exactly the user text and the image-file block of the last such upload;
   file texts and the blocks of earlier images are not sent *)
C12_LastImageReplacesBlocks ==
    \A k \in 1..Len(thread) :
        ImagePositions(file_uploads) # {} =>
            thread[k].content =
                <<TextBlock(USER_INPUT),
                  ImageFileBlock(UploadedId(
                      StoredBefore(file_uploads, Last(ImagePositions(file_uploads)))))>>

(* a document and then an image were uploaded: the file text was not sent *)
C12_Witness ==
    /\ pc = "done"
    /\ file_contents # <<>>
    /\ ImagePositions(file_uploads) = {2}
    /\ thread[1].content = <<TextBlock(USER_INPUT), ImageFileBlock(UploadedId(2))>>

(* C13: one file is stored and one attachment with its identifier is added for every
   pending upload with a path, in upload order, and none for an upload without a path;
   without an image upload the content sent is the user text followed by one text
   block per extracted file content, in order *)
C13_OneAttachmentPerUpload ==
    pipeline = "chat_agent" =>
        /\ n_uploaded = StoredBefore(file_uploads, upload_idx)
        /\ pc \notin {"send", "client", "raised"} =>
              attachments = [i \in 1..n_uploaded |-> [file_id |-> UploadedId(i),
                                                      tools |-> "code_interpreter"]]
        /\ \A k \in 1..Len(thread) :
              /\ upload_idx = Len(file_uploads)
              /\ thread[k].attachments = attachments
              /\ Len(thread[k].attachments) = StoredBefore(file_uploads, Len(file_uploads))
              /\ ImagePositions(file_uploads) = {} =>
                    /\ Len(thread[k].content) = 1 + Len(file_contents)
                    /\ thread[k].content[1] = TextBlock(USER_INPUT)
                    /\ \A i \in 1..Len(file_contents) :
                          thread[k].content[i + 1] = TextBlock(file_contents[i])

(* an upload without a path and a document: one attachment, two text blocks *)
C13_Witness ==
    /\ pc = "done"
    /\ Len(file_uploads) = 2 /\ file_uploads[1].path = "" /\ file_uploads[2].path # ""
    /\ Len(thread[1].attachments) = 1
    /\ Len(thread[1].content) = 3

(* upload_and_poll raised for a pending upload *)
UploadFailed ==
    /\ pipeline = "chat_agent" /\ pc = "raised"
    /\ content_blocks # <<>>
    /\ upload_idx < Len(file_uploads)

(* C14: when the upload of a pending file fails, chat_agent raises: no further upload
   is attempted, no message is created on the thread, no run stream is opened and no
   text is returned; a message is created only after every upload with a path has
   been stored *)
C14_UploadFailureFailsAll ==
    /\ [](UploadFailed =>
            /\ raised = <<RuntimeErrorMsg("chat_agent", <<"boom">>)>>
            /\ thread = <<>> /\ stream_opened = 0 /\ backend_calls = 0
            /\ result = None)
    /\ []((pipeline = "chat_agent" /\ (thread # <<>> \/ stream_opened > 0 \/ result # None)) =>
            /\ upload_idx = Len(file_uploads)
            /\ n_uploaded = StoredBefore(file_uploads, Len(file_uploads)))
    /\ [][UploadFailed => UNCHANGED vars]_vars

(* the first upload was stored and the second failed *)
C14_Witness ==
    /\ UploadFailed
    /\ n_uploaded = 1 /\ upload_idx = 1 /\ Len(file_uploads) = 2

(* the annotation is a citation: a URL citation or a file path *)
IsCiting(annotation) == annotation.kind \in {"url_citation", "file_path"}

(* the citing annotations of a final message, in order *)
Citing(final) == SelectSeq(final.annotations, IsCiting)

(* the URL begins with the reserved prefix of document references *)
DocPrefixed(url) == url # None /\ Len(url) > 0 /\ url[1] = "doc_"

(* the three forms of a line of the Sources block *)
UrlLine(title, url) ==
    <<NL, "- [">> \o Str(title) \o <<"](">> \o Str(url) \o <<")">>

FileLinkLine(name, link) ==
    <<NL, "- {page} [">> \o Str(name) \o <<"](">> \o link \o <<")">>

FileIdLine(name, file_id) ==
    <<NL, "- {page} **">> \o Str(name) \o <<"** (File ID: '">> \o Str(file_id) \o <<"')">>

(* the line rendered for the collected citation at a first-seen position i *)
LineOf(i) ==
    source_lines[Cardinality({j \in FirstSeen(citation_sources) : j <= i})]

(* C15 as stated: a URL citation whose URL starts with doc_ is always recorded as a
   file citation and rendered in the file form with a link made from its title; every
   other URL citation is rendered as "- [title](url)" *)
C15_DocUrlAlwaysLinked ==
    (pipeline = "chat_agent" /\ Finalized) =>
        LET cit == Citing(response_message)
        IN  /\ Len(citation_sources) = Len(cit)
            /\ \A i \in 1..Len(cit) :
                  cit[i].kind = "url_citation" =>
                      IF DocPrefixed(cit[i].url)
                      THEN /\ citation_sources[i].type = "file"
                           /\ i \in FirstSeen(citation_sources) =>
                                 LineOf(i) = FileLinkLine(cit[i].title,
                                                          SP_BASE \o Quote(cit[i].title))
                      ELSE /\ citation_sources[i].type = "url"
                           /\ i \in FirstSeen(citation_sources) =>
                                 LineOf(i) = UrlLine(cit[i].title, cit[i].url)

(* C15: a URL citation whose URL starts with doc_ is always recorded as a file
   citation and rendered in a file form, never as a URL line: with a link made from
   its title when it has a title, with its identifier and no link when it has none;
   every other URL citation is rendered as "- [title](url)" *)
C15_DocUrlIsFileCitation ==
    (pipeline = "chat_agent" /\ Finalized) =>
        LET cit == Citing(response_message)
        IN  /\ Len(citation_sources) = Len(cit)
            /\ \A i \in 1..Len(cit) :
                  cit[i].kind = "url_citation" =>
                      IF DocPrefixed(cit[i].url)
                      THEN /\ citation_sources[i].type = "file"
                           /\ citation_sources[i].id = cit[i].url
                           /\ i \in FirstSeen(citation_sources) =>
                                 LineOf(i) = IF cit[i].title # None
                                             THEN FileLinkLine(cit[i].title,
                                                      SP_BASE \o Quote(cit[i].title))
                                             ELSE FileIdLine(None, cit[i].url)
                      ELSE /\ citation_sources[i].type = "url"
                           /\ i \in FirstSeen(citation_sources) =>
                                 LineOf(i) = UrlLine(cit[i].title, cit[i].url)

(* a document reference and a web page were cited: a file line with a link made from
   the title, then a URL line *)
C15_Witness ==
    /\ pipeline = "chat_agent" /\ pc = "done"
    /\ source_lines =
          << FileLinkLine(<<"a", SP, "b">>, <<"https://sp/", "a", "%20", "b">>),
             UrlLine(<<"t">>, <<"https://", "w">>) >>

(* the name a file-path annotation with this identifier gets: from the cache as the
   turn found it, else from the pending upload that names files, else the placeholder *)
ExpectedName(cache, upload_name, file_id) ==
    IF cache[file_id] # None THEN cache[file_id]
    ELSE IF upload_name # None THEN upload_name
         ELSE <<"Document">>

(* the cache after the annotations of a message were handled *)
ExpectedCache(cache, upload_name, cit) ==
    [f \in FileIds |->
        IF cache[f] # None THEN cache[f]
        ELSE IF upload_name # None
                /\ \E i \in 1..Len(cit) : cit[i].kind = "file_path" /\ cit[i].file_id = f
             THEN upload_name
             ELSE None]

(* the step that handles the annotations names the file paths by upload_name *)
NamedBy(upload_name) ==
    (pipeline = "chat_agent" /\ pc = "annotate" /\ pc' = "sources") =>
        LET cit == Citing(response_message)
        IN  /\ \A i \in 1..Len(cit) :
                  cit[i].kind = "file_path" =>
                      /\ citation_sources'[i].type = "file"
                      /\ citation_sources'[i].id = cit[i].file_id
                      /\ citation_sources'[i].name =
                            ExpectedName(file_id_mapping, upload_name, cit[i].file_id)
            /\ file_id_mapping' = ExpectedCache(file_id_mapping, upload_name, cit)

(* C16 as stated: the name of a file-path annotation is the cached name when present,
   else the name of the first pending upload, which is then cached, else "Document",
   which is not cached *)
C16_NamedByFirstUpload ==
    [][NamedBy(IF file_uploads = <<>> THEN None ELSE file_uploads[1].name)]_vars

(* C16: the name of a file-path annotation is the cached name when present, else the
   name of the first pending upload that has a path, which is then cached, else
   "Document", which is not cached *)
C16_NamedByFirstUploadWithPath ==
    [][NamedBy(LET idx == {i \in 1..Len(file_uploads) : file_uploads[i].path # ""}
               IN  IF idx = {} THEN None
                   ELSE file_uploads[CHOOSE i \in idx : \A j \in idx : i <= j].name)]_vars

(* the first pending upload has no path and the file was named after the second *)
C16_Witness ==
    /\ pipeline = "chat_agent" /\ pc = "done"
    /\ Len(file_uploads) = 2 /\ file_uploads[1].path = ""
    /\ file_id_mapping[UploadedId(1)] = file_uploads[2].name
    /\ \E i \in 1..Len(citation_sources) : citation_sources[i].name = file_uploads[2].name

(* m occurs in s *)
Occurs(s, m) ==
    \E i \in 1..(Len(s) - Len(m) + 1) : SubSeq(s, i, i + Len(m) - 1) = m

(* the returned text without its Sources block *)
Body ==
    IF citation_sources = <<>> THEN msg_content
    ELSE SubSeq(msg_content, 1,
                Len(msg_content) - Len(SourcesHeader \o Concat(source_lines)))

(* C17 as stated: the body of the final text of chat_agent holds no occurrence of the
   marker of any annotation of the final message *)
C17_NoMarkerLeft ==
    (pipeline = "chat_agent" /\ Finalized) =>
        \A i \in 1..Len(response_message.annotations) :
            LET marker == response_message.annotations[i].text
            IN  (marker # None /\ marker # <<>>) => ~Occurs(Body, marker)

(* C18: when the link of a file citation cannot be built the turn goes on: handling
   the annotations and rendering the sources never raise, that citation has no link
   and its line has the identifier form, the lines of the other file citations have
   the link form, and the text returned is the text pushed last *)
C18_LinkFailureIsLocal ==
    /\ [][(pipeline = "chat_agent" /\ pc = "annotate") => pc' = "sources"]_vars
    /\ [][(pipeline = "chat_agent" /\ pc = "sources") => pc' = "update"]_vars
    /\ []((pipeline = "chat_agent" /\ Finalized) =>
            \A i \in FirstSeen(citation_sources) :
                LET source == citation_sources[i]
                IN  source.type = "file" =>
                        IF source.name = None
                        THEN /\ source.link = None
                             /\ LineOf(i) = FileIdLine(source.name, source.id)
                        ELSE /\ source.link = SP_BASE \o Quote(source.name)
                             /\ LineOf(i) = FileLinkLine(source.name, source.link))
    /\ []((pipeline = "chat_agent" /\ pc = "done") =>
            (result = msg_content /\ displayed = result))

(* one file citation without a link and one with a link were rendered and returned *)
C18_Witness ==
    /\ pipeline = "chat_agent" /\ pc = "done"
    /\ Len(source_lines) = 2
    /\ \E i, j \in 1..Len(citation_sources) :
          /\ citation_sources[i].type = "file" /\ citation_sources[i].link = None
          /\ citation_sources[j].type = "file" /\ citation_sources[j].link # None
    /\ Count(result, "- {page} **") = 1

(* the scan of the thread has ended *)
Scanned == pc \in {"annotate", "sources", "update", "done"}

(* C19: the image scan saves and collects, for each thread message with image blocks,
   the file of its last image block under "<file_id>_image_file.png" when that block
   has a file identifier, and nothing otherwise; the collected list, in the order of
   the thread messages, becomes the elements of the live message when it is not
   empty, and the elements are left alone when it is empty *)
C19_LastImagePerMessage ==
    /\ [][(pipeline = "chat_agent" /\ pc = "list" /\ pc' = "list"
             /\ n_msgs' = n_msgs + 1) =>
            images' = IF message' # <<>> /\ message'[Len(message')] # None
                      THEN Append(images,
                                  message'[Len(message')] \o <<"_image_file.png">>)
                      ELSE images]_vars
    /\ [][(pipeline = "chat_agent" /\ n_msgs' = n_msgs) => images' = images]_vars
    /\ []((pipeline = "chat_agent" /\ pc \in {"send", "client", "upload", "open",
                                               "stream", "list"}) => elements = <<>>)
    /\ []((pipeline = "chat_agent" /\ (Scanned \/ fetches = 1)) => elements = images)
    /\ [](Len(images) <= n_msgs)

(* two thread messages had images: the last image of each was attached, in order *)
C19_Witness ==
    /\ pipeline = "chat_agent" /\ pc = "done"
    /\ elements = << <<"img-2", "_image_file.png">>, <<"img-1", "_image_file.png">> >>

(* positions of the descriptors whose deployment is the selected profile *)
Matching == {i \in 1..Len(llm_models) : llm_models[i].model_deployment = chat_profile}

(* the field of the descriptor that the profile selects, Missing without a match *)
Selected(field) ==
    IF Matching = {} THEN Missing
    ELSE llm_models[CHOOSE i \in Matching : \A j \in Matching : i <= j][field]

(* C20: the parameters built by get_llm_params always hold the selected profile as
   model, the given messages and stream = true, with or without a matching descriptor;
   api_key, and for provider azure api_version and api_base, only when the descriptor
   has them; temperature as given for azure unless the model name is o3-mini, and as a
   float for every other provider; tools, the one search_web definition, exactly when
   the tools flag is set *)
C20_ParametersBuilt ==
    /\ (pipeline = "get_llm_params" /\ pc = "params") => ENABLED BuildParams
    /\ (pipeline = "get_llm_params" /\ pc = "built") =>
        /\ raised = <<>>
        /\ chat_parameters.model = chat_profile
        /\ chat_parameters.messages = messages
        /\ chat_parameters.stream = TRUE
        /\ chat_parameters.api_key # Missing =>
              (Selected("api_key") # Missing
               /\ chat_parameters.api_key = Selected("api_key"))
        /\ chat_settings.model_provider = "azure" =>
              /\ chat_parameters.api_version # Missing =>
                    (Selected("api_version") \notin {Missing, None}
                     /\ chat_parameters.api_version = Selected("api_version"))
              /\ chat_parameters.api_base # Missing =>
                    (Selected("api_endpoint") \notin {Missing, None}
                     /\ chat_parameters.api_base = Selected("api_endpoint"))
              /\ chat_parameters.temperature =
                    IF chat_settings.model_name = "o3-mini"
                    THEN [type |-> "missing", tenths |-> 0]
                    ELSE chat_settings.temperature
        /\ chat_settings.model_provider # "azure" =>
              /\ chat_parameters.temperature.type = "float"
              /\ chat_parameters.temperature.tenths = chat_settings.temperature.tenths
        /\ chat_parameters.tools = IF use_tools THEN <<"search_web">> ELSE Missing

(* no descriptor matched, the provider is azure and the model takes no temperature *)
C20_Witness ==
    /\ pipeline = "get_llm_params" /\ pc = "built"
    /\ Len(llm_models) = 2 /\ Matching = {}
    /\ chat_settings.model_provider = "azure" /\ chat_settings.model_name = "o3-mini"
    /\ use_tools
    /\ chat_parameters.api_key = Missing /\ chat_parameters.temperature.type = "missing"
    /\ chat_parameters.tools = <<"search_web">>

(* C21 as stated: when chat_completion is called with use_tools = true, the parameters
   given to the completion backend hold the search_web tool definition *)
C21_ToolsPassedOn ==
    (pipeline = "chat_completion" /\ use_tools /\ backend_calls > 0) =>
        chat_parameters.tools = <<"search_web">>

(* position of a step of chat_agent in the order of the function *)
Rank(at) ==
    CASE at = "send" -> 1 [] at = "client" -> 2 [] at = "upload" -> 3 [] at = "open" -> 4
      [] at = "stream" -> 5 [] at = "list" -> 6 [] at = "annotate" -> 7
      [] at = "sources" -> 8 [] at = "update" -> 9 [] at = "done" -> 10
      [] OTHER -> 11

(* C27: within one call of chat_agent the external operations happen in one order:
   the uploads, the creation of the message, the opening of the run stream, its
   release, the listing of the thread with the saving of images, the fetch of the
   final message, the final push; an operation starts only when the earlier ones have
   succeeded, and nothing happens after a failure *)
C27_OperationsInOrder ==
    /\ [](pipeline = "chat_agent" =>
            /\ thread # <<>> =>
                  (upload_idx = Len(file_uploads) /\ Len(thread) = 1)
            /\ stream_opened > 0 => thread # <<>>
            /\ stream_closed > 0 => stream_opened = 1
            /\ (n_msgs > 0 \/ images # <<>>) => stream_closed = 1
            /\ fetches > 0 => (stream_closed = 1 /\ fetches = 1)
            /\ pc = "done" => (fetches = 1 /\ response_message # NoMessage
                               /\ displayed = result))
    /\ [][pipeline = "chat_agent" =>
            /\ n_uploaded' # n_uploaded => (thread = <<>> /\ pc = "upload")
            /\ thread' # thread => stream_opened = 0
            /\ stream_opened' # stream_opened => (stream_closed = 0 /\ n_msgs = 0)
            /\ (n_msgs' # n_msgs \/ images' # images) => (stream_closed = 1 /\ fetches = 0)
            /\ fetches' # fetches => (pc = "list" /\ stream_closed = 1)
            /\ result' # result => (fetches = 1 /\ pc = "update")
            /\ pc' # pc => Rank(pc') > Rank(pc)
            /\ pc = "raised" => UNCHANGED vars]_vars

(* a call that uploaded two files, streamed an event and saved an image returned *)
C27_Witness ==
    /\ pipeline = "chat_agent" /\ pc = "done"
    /\ n_uploaded = 2 /\ n_events > 0 /\ images # <<>>
    /\ stream_closed = 1 /\ fetches = 1

(* C25: get_llm_details returns an entry whose model_deployment equals the selected
   profile whenever the configuration list holds one, the empty descriptor when no entry
   equals the profile, and stores the provider and the name of the profile in the chat
   settings as model_provider and model_name *)
C25_ReturnsSelectedModel ==
    (pipeline = "get_llm_details" /\ pc = "detailed") =>
        LET exact == {i \in 1..Len(llm_models) :
                        llm_models[i].model_deployment = chat_profile}
        IN  /\ exact # {} => start_details.model_deployment = chat_profile
            /\ exact = {} => start_details = EmptyDescriptor
            /\ chat_settings.model_provider = chat_profile[1]
            /\ chat_settings.model_name = chat_profile[3]

(* C22: every request sent to a backend, by either pipeline and after any sequence of
   turns, starts with the system message built from the current instructions and holds
   no other system message *)
C22_OneSystemMessage ==
    (pipeline = "session" /\ request # <<>>) =>
        /\ request[1].role = "system"
        /\ request[1].text = chat_settings.instructions
        /\ \A i \in 2..Len(request) : request[i].role # "system"

(* a step of the session that is an append_message call with the given role *)
AppendStep(role) ==
    /\ pipeline = "session"
    /\ n_appended' = n_appended + 1
    /\ IF role = "user" THEN pc = "idle" ELSE pc = "append"

(* the smaller of two numbers *)
Min(a, b) == IF a <= b THEN a ELSE b

(* C23: after every append_message with role "assistant" the stored history holds at most
   10 entries, which are the most recent messages in their original order; an
   append_message with role "user" adds exactly one entry at the end and removes none *)
C23_HistoryPruning ==
    /\ [](pipeline = "session" =>
            \A i \in 1..Len(chat_history) :
                chat_history[i].id = n_appended - Len(chat_history) + i)
    /\ [][AppendStep("assistant") =>
            LET all == Append(chat_history, [role |-> "assistant", id |-> n_appended + 1])
                n == Len(chat_history')
            IN  /\ n = Min(HistoryLimit, Len(all))
                /\ \A i \in 1..n : chat_history'[i] = all[Len(all) - n + i]]_vars
    /\ [][AppendStep("user") =>
            /\ Len(chat_history') = Len(chat_history) + 1
            /\ SubSeq(chat_history', 1, Len(chat_history)) = chat_history
            /\ chat_history'[Len(chat_history')] =
                   [role |-> "user", id |-> n_appended + 1]]_vars

(* an assistant append has pruned a history of twelve entries to ten *)
C23_Witness ==
    /\ pipeline = "session" /\ pc = "idle"
    /\ n_appended = 12
    /\ Len(chat_history) = HistoryLimit
    /\ chat_history[1].id = 3
    /\ chat_history[HistoryLimit].role = "assistant"

(* a step of main that ends the turn through the except branch *)
TurnFailed ==
    /\ pipeline = "session"
    /\ pc' = "idle"
    /\ \/ pc = "call"
       \/ pc = "idle" /\ n_turns' = n_turns + 1

(* the text of a failed pipeline call, or of a failed read of an attachment *)
FailureTexts ==
    {RuntimeErrorMsg(name, e) : name \in {"chat_agent", "chat_completion"}, e \in Errors}
        \cup Errors

(* C24: a turn invokes at most one pipeline, once: chat_agent if and only if the
   model_provider of the session is "foundry", otherwise chat_completion, and a turn that
   completes has invoked it. A turn that fails shows exactly one message authored "Error"
   that carries the error text, does not call the pipeline again, and appends no
   assistant entry *)
C24_OnePipelinePerTurn ==
    /\ [](pipeline = "session" =>
            /\ Len(calls) <= 1
            /\ \A i \in 1..Len(calls) :
                  (calls[i] = "chat_agent") <=> (chat_settings.model_provider = "foundry")
            /\ \A i \in 1..Len(calls) :
                  (calls[i] = "chat_completion") <=> (chat_settings.model_provider # "foundry")
            /\ pc = "append" => Len(calls) = 1 /\ errors_shown = <<>>)
    /\ [][TurnFailed =>
            /\ Len(errors_shown') = 1
            /\ \E text \in FailureTexts :
                  errors_shown'[1] = <<"An error occurred: ">> \o text
            /\ Len(calls') <= 1
            /\ chat_history' = chat_history
            /\ n_appended' = n_appended]_vars
    /\ [][(pipeline = "session" /\ pc = "call") => Len(calls') = Len(calls) + 1]_vars

(* an agent turn has failed in the pipeline: one call, one error message, the history
   ends with the user entry *)
C24_Witness ==
    /\ pipeline = "session" /\ pc = "idle"
    /\ calls = <<"chat_agent">>
    /\ errors_shown = <<<<"An error occurred: ">> \o RuntimeErrorMsg("chat_agent", <<"boom">>)>>
    /\ chat_history # <<>>
    /\ chat_history[Len(chat_history)].role = "user"

(* a step that is one run of start() *)
StartStep ==
    /\ pipeline = "session"
    /\ pc \in {"start", "idle"}
    /\ pc' = "idle"
    /\ n_turns' = n_turns

(* C26: start creates an agent thread and stores its identifier as thread_id if and only
   if the selected provider is "foundry" and the session holds no thread_id: a start that
   ends without an error in that case has stored the new identifier, a thread_id the
   session holds is never replaced, only start creates threads, and a session of another
   provider never creates one *)
C26_ThreadCreatedOnce ==
    /\ [][(thread_id' # thread_id \/ n_threads' # n_threads) =>
            /\ StartStep
            /\ chat_settings'.model_provider = "foundry"
            /\ thread_id = None
            /\ n_threads' = n_threads + 1
            /\ thread_id' = THREAD(n_threads')]_vars
    /\ [][(StartStep /\ errors_shown' = <<>> /\ thread_id = None
                     /\ chat_settings'.model_provider = "foundry") =>
            thread_id' # None]_vars
    /\ [](pipeline = "session" /\ chat_profile # FOUNDRY_AGENT =>
            thread_id = None /\ n_threads = 0)

(* a later start of an agent session, after a turn, has left the thread_id of the first
   start in place *)
C26_Witness ==
    /\ pipeline = "session" /\ pc = "idle"
    /\ thread_id = THREAD(1)
    /\ n_threads = 1
    /\ n_turns > 0
    /\ calls = <<"chat_agent">>
    /\ errors_shown = <<>>
    /\ chat_history[Len(chat_history)].role = "user"

(* the name is the name of a pending upload that has a path *)
PendingName(name) ==
    \E j \in 1..Len(file_uploads) : file_uploads[j].path # "" /\ file_uploads[j].name = name

(* the final message of the step holds a file-path annotation for the identifier *)
CitedByPath(final, file_id) ==
    \E i \in 1..Len(final.annotations) :
        /\ final.annotations[i].kind = "file_path"
        /\ final.annotations[i].file_id = file_id

(* C28: over any sequence of turns the identifier cache only grows: an entry that holds a
   name is never changed or removed; an entry is added only by an agent call, for the
   identifier of a file-path annotation of its final message, and with the name of a
   pending upload of that turn; URL citations and the placeholder name add nothing *)
C28_CacheOnlyGrows ==
    [][pipeline = "session" =>
         \A f \in FileIds :
            /\ file_id_mapping[f] \notin {None, <<>>} =>
                   file_id_mapping'[f] = file_id_mapping[f]
            /\ file_id_mapping'[f] # file_id_mapping[f] =>
                   /\ pc = "call"
                   /\ calls' = <<"chat_agent">>
                   /\ CitedByPath(response_message', f)
                   /\ PendingName(file_id_mapping'[f])
                   /\ file_uploads = user_elements
                   /\ file_id_mapping'[f] # <<"Document">>]_vars

(* a later agent turn with other uploads cites a file the cache already names: the entry
   of the earlier turn is still there, next to an entry of another turn *)
C28_Witness ==
    /\ pipeline = "session" /\ pc = "append"
    /\ n_turns >= 3
    /\ file_id_mapping[UploadedId(1)] = <<"a", SP, "b">>
    /\ file_id_mapping[<<"file-", "old">>] = <<"i">>
    /\ FirstWithPath(file_uploads) = <<"i">>
    /\ CitedByPath(response_message, UploadedId(1))

(* a step in which the pipeline call of main raises *)
PipelineFailed == pipeline = "session" /\ pc = "call" /\ pc' = "idle"

(* the entries of the history from position k on are all user entries *)
UsersFrom(k) == \A i \in k..Len(chat_history) : chat_history[i].role = "user"

(* C29: when the pipeline fails after the user message was appended, the stored history
   still ends with that user entry and is otherwise as it was before the call; the user
   append before it added that one entry without pruning, whatever the length, so each
   failed turn makes the history one entry longer and failed turns in a row leave user
   entries in a row at its end *)
C29_FailedTurnKeepsUserEntry ==
    /\ [][PipelineFailed =>
            /\ chat_history' = chat_history
            /\ n_appended' = n_appended
            /\ chat_history[Len(chat_history)] = [role |-> "user", id |-> n_appended]]_vars
    /\ [][(pipeline = "session" /\ pc = "idle" /\ pc' = "call") =>
            chat_history' = Append(chat_history, [role |-> "user", id |-> n_appended + 1])]_vars
    /\ [][(pipeline = "session" /\ pc' = "idle" /\ pc # "append") =>
            Len(chat_history') >= Len(chat_history)]_vars

(* five completed turns and then two failed ones: twelve entries, none pruned, the last
   two of them user entries *)
C29_Witness ==
    /\ pipeline = "session" /\ pc = "idle"
    /\ Len(errors_shown) = 1
    /\ calls # <<>>
    /\ Len(chat_history) = 12
    /\ n_appended = 12
    /\ UsersFrom(11)
    /\ chat_history[10].role = "assistant"

(* the elements that are not images, in order *)
Documents(attached) == SelectSeq(attached, LAMBDA u : ~IsImage(u))

(* the lists hold the attachments of the given elements and nothing else *)
PendingAre(uploads, contents, attached) ==
    /\ uploads = attached
    /\ Len(contents) = Len(Documents(attached))
    /\ \A i \in 1..Len(contents) : contents[i] = FileText(Documents(attached)[i].name)

(* C30: every append_message call replaces the session's file_uploads and file_contents by
   the attachments of that call: those of the message for role "user", none for role
   "assistant", so both lists are empty after the assistant append of a completed turn,
   and a pipeline is called only with the attachments of the running turn *)
C30_PendingPerTurn ==
    /\ [][AppendStep("user") =>
            PendingAre(file_uploads', file_contents', user_elements')]_vars
    /\ [][AppendStep("assistant") =>
            file_uploads' = <<>> /\ file_contents' = <<>>]_vars
    /\ [](pipeline = "session" /\ pc \in {"call", "append"} =>
            PendingAre(file_uploads, file_contents, user_elements))

(* a completed turn whose message had a document attached has left both lists empty *)
C30_Witness ==
    /\ pipeline = "session" /\ pc = "idle"
    /\ n_turns >= 2
    /\ Documents(user_elements) # <<>>
    /\ errors_shown = <<>>
    /\ chat_history # <<>>
    /\ chat_history[Len(chat_history)].role = "assistant"
    /\ file_uploads = <<>>
    /\ file_contents = <<>>

====
